---------------------------- MODULE Spec2Model ----------------------------
(***************************************************************************)
(* PicoWeatherStation, in seven specifications over one set of variables:  *)
(*   Spec         the WiFi manager's transmit-or-buffer pipeline           *)
(*                (wifimanager.py) as driven by its callers (main.py       *)
(*                transmit_data, shutdown, the standalone test);           *)
(*   SpecPower    the battery monitor (power.py): sample window, mean,     *)
(*                percentage, classification, suggested sleep time;        *)
(*   SpecSensor   the BME280 driver (bme280.py): burst read, compensation  *)
(*                and the derived values;                                  *)
(*   SpecStation  the main loop (main.py): read, derive, annotate,         *)
(*                transmit, sleep, sensor reset, interrupt and shutdown.   *)
(*   SpecConnect  the wait loop of WiFiManager.connect, one poll at a      *)
(*                time, with the join completing asynchronously;           *)
(*   SpecRecovery the main loop in a healthy environment (no interrupt,    *)
(*                reads and transmissions succeed once the sensor exists). *)
(*   SpecRaw      the burst read byte by byte: the simulator's packing     *)
(*                (hardwaresim.py) and the driver's assembly.              *)
(*                                                                         *)
(* Floats are exact fractions [n, d] in lowest terms; voltages are in      *)
(* hundredths of a volt.  Values with a real exponent (sea-level pressure, *)
(* altitude) are symbolic terms over their arguments.                      *)
(*                                                                         *)
(* A reading is identified by the value of reading_count it carries (the   *)
(* 'reading_count' field of the record built by read_sensors); 0 stands    *)
(* for None.  A buffered entry is the record {'timestamp', 'data'}; the    *)
(* timestamp is written by buffer_data and read nowhere in the repository, *)
(* so an entry is modelled by its 'data' field alone.                      *)
(*                                                                         *)
(* The program is single-threaded: pc is the position of the one task.     *)
(* A call made by a client starts at pc = "idle" and ends at               *)
(* pc = "returned", where the client sees the result; Resume takes the     *)
(* client back to "idle".  Calls into the network stack (wlan.connect,     *)
(* urequests.get/post) are answered by the environment.                    *)
(***************************************************************************)
EXTENDS Integers, Sequences, FiniteSets

\* ---------------------------------------------------------------- bounds
\* config.DATA_BUFFER_SIZE is 50 in config.py; the model runs a small buffer.
DATA_BUFFER_SIZE == 3
\* Readings handed to the transmit step over one run.
MaxReadings == 4
\* Caps on the two counters the code never bounds.
MaxFailed == 3
MaxAttempts == 1
\* PowerManager.max_samples is 10 in power.py; the model runs a small window.
max_samples == 3
\* Averaged battery reads over one run of the battery monitor.
MaxAdcReads == 4
\* Cycles of the station's main loop over one run.
MaxCycles == 3
\* config.WIFI_TIMEOUT is 30 (seconds); the model runs a short timeout.
WIFI_TIMEOUT == 2

\* ------------------------------------------------------- program constants
\* Voltages are in hundredths of a volt: 330 stands for config's 3.3.
BATTERY_LOW_VOLTAGE == 330
BATTERY_CRITICAL_VOLTAGE == 300
BATTERY_FULL_VOLTAGE == 420
SENSOR_READ_INTERVAL == 300
MAX_SENSOR_READ_FAILURES == 5
\* BME280 register addresses (0xF2, 0xF4, 0xF5, 0xE0).
REG_CONTROL_HUM == 242
REG_CONTROL == 244
REG_CONFIG == 245
REG_SOFTRESET == 224

VARIABLES
    USE_THINGSPEAK,       \* config.USE_THINGSPEAK
    USE_HTTP_POST,        \* config.USE_HTTP_POST
    wlan_active,          \* network.WLAN: interface active
    wlan_connected,       \* network.WLAN: isconnected()
    is_connected,         \* WiFiManager.is_connected
    connection_attempts,  \* WiFiManager.connection_attempts
    failed_transmissions, \* WiFiManager.failed_transmissions
    data_buffer,          \* WiFiManager.data_buffer (sequence of entries)
    pc,                   \* position of the task
    op,                   \* the call the client made ("none" when idle)
    nested,               \* transmit_buffered_data was called by send_data
    data,                 \* the reading passed to the call (0: None)
    success,              \* send_data's local 'success'
    transmitted_count,    \* transmit_buffered_data's local
    failed_entries,       \* transmit_buffered_data's local
    idx,                  \* position of the for loop over data_buffer
    ret,                  \* what the call returned: "True", "False", "None", "raised"
    tbd_ret,              \* what the last transmit_buffered_data returned (-1: nothing yet)
    reading_count,        \* readings produced so far
    delivered,            \* readings the server acknowledged
    evicted,              \* readings popped off a full buffer
    log,                  \* transmit attempts of the current call, in order
    buf_at_call           \* data_buffer when the current call was made

\* The battery monitor (power.py).
VARIABLES
    voltage_samples,      \* PowerManager.voltage_samples (the smoothing window)
    current_voltage,      \* PowerManager.current_voltage
    battery_percentage,   \* PowerManager.battery_percentage
    is_low_battery,       \* PowerManager.is_low_battery
    is_critical_battery,  \* PowerManager.is_critical_battery
    pm_call,              \* the last PowerManager call and what it returned
    pm_state,             \* 'state' of the last get_battery_status ("none" before)
    adc_history           \* every sample that entered the window, in order

\* The sensor driver (bme280.py).
VARIABLES
    dig,                  \* BME280.dig_T1 .. dig_H6, as loaded by _load_calibration
    t_fine,               \* BME280.t_fine
    bme_call              \* the last BME280 call: what it read and returned

\* The orchestrator (main.py).
VARIABLES
    st,                   \* position of the main loop
    bme_ok,               \* WeatherStation.bme is not None
    error_count,          \* WeatherStation.error_count
    sleep_seconds,        \* run_continuous's local (0: not computed)
    reading,              \* the record read_sensors built in this cycle
    cycle,                \* cycles started so far
    consec_failed,        \* failed read_sensors calls since the last good one or reset
    compensated,          \* line 124's read_compensated_data returned in this cycle
    classified,           \* get_battery_status ran in this cycle
    burst_reads,          \* burst reads of the sensor in this cycle
    interrupted,          \* KeyboardInterrupt was raised
    drains,               \* transmit_buffered_data calls made by shutdown
    buf_at_shutdown       \* data_buffer when shutdown began

\* The wait loop of WiFiManager.connect and the radio's join.
VARIABLES
    joining,              \* wlan.connect was issued and the driver is still joining
    phase,                \* half-seconds into the clock's second when the wait began
    waited                \* time.sleep(0.5) calls made by the wait loop

\* The sensor's bus (bme280.py).
VARIABLES
    i2c_writes            \* registers written by the last configuring call, in order

vars == <<USE_THINGSPEAK, USE_HTTP_POST, wlan_active, wlan_connected, is_connected,
          connection_attempts, failed_transmissions, data_buffer, pc, op, nested,
          data, success, transmitted_count, failed_entries, idx, ret, tbd_ret,
          reading_count, delivered, evicted, log, buf_at_call,
          voltage_samples, current_voltage, battery_percentage, is_low_battery,
          is_critical_battery, pm_call, pm_state, adc_history,
          dig, t_fine, bme_call,
          st, bme_ok, error_count, sleep_seconds, reading, cycle, consec_failed,
          compensated, classified, burst_reads, interrupted, drains,
          buf_at_shutdown, joining, phase, waited, i2c_writes>>

wifi_vars == <<USE_THINGSPEAK, USE_HTTP_POST, wlan_active, wlan_connected,
               is_connected, connection_attempts, failed_transmissions,
               data_buffer, pc, op, nested, data, success, transmitted_count,
               failed_entries, idx, ret, tbd_ret, reading_count, delivered,
               evicted, log, buf_at_call>>
pm_fields == <<voltage_samples, current_voltage, battery_percentage,
               is_low_battery, is_critical_battery>>
pm_vars == <<pm_fields, pm_call, pm_state, adc_history>>
bme_vars == <<dig, t_fine, bme_call>>
cycle_ghosts == <<compensated, classified, burst_reads>>
shutdown_ghosts == <<drains, buf_at_shutdown>>
st_vars == <<st, bme_ok, error_count, sleep_seconds, reading, cycle,
             consec_failed, cycle_ghosts, interrupted, shutdown_ghosts>>

conn_vars == <<joining, phase, waited>>
\* What the callers of one component leave alone in the others.
aux_vars == <<conn_vars, i2c_writes>>

config_vars == <<USE_THINGSPEAK, USE_HTTP_POST>>
wlan_vars == <<wlan_active, wlan_connected>>
ghost_vars == <<reading_count, delivered, evicted>>
tbd_locals == <<transmitted_count, failed_entries, idx>>

\* ------------------------------------------------------------ environment
\* What wlan.connect() followed by the wait loop can do: the link comes up
\* before the timeout, it does not, or wlan.connect raises OSError (the
\* driver cannot start the join).  connect() has no handler, and its callers
\* call it outside their try blocks, so the exception leaves send_data; the
\* except clause of WeatherStation.transmit_data is the handler for it.
ConnectOutcomes == {"up", "timeout", "error"}
\* What urequests.get/post can do: a response with a status code, or an
\* exception (0).
HttpOutcomes == {0, 200, 201, 404}

\* -------------------------------------------------------------- WiFiManager
\* The manager's fields that connect() and the senders read and write.
WM == [wlan_connected |-> wlan_connected, is_connected |-> is_connected,
       connection_attempts |-> connection_attempts,
       failed_transmissions |-> failed_transmissions]

\* connect(): result state and return value.
connect(s, c) ==
    IF s.wlan_connected
    THEN [st |-> [s EXCEPT !.is_connected = TRUE], ret |-> "True"]
    ELSE IF c = "error"
    THEN [st |-> s, ret |-> "raised"]
    ELSE IF c = "timeout"
    THEN [st |-> [s EXCEPT !.is_connected = FALSE,
                           !.connection_attempts = @ + 1], ret |-> "False"]
    ELSE [st |-> [s EXCEPT !.wlan_connected = TRUE, !.is_connected = TRUE,
                           !.connection_attempts = 0], ret |-> "True"]

\* The part of a sender after the connection check: the request inside try.
Request(s, h, okCodes) ==
    IF h \in okCodes
    THEN [st |-> [s EXCEPT !.failed_transmissions = 0], ret |-> "True", req |-> TRUE]
    ELSE [st |-> [s EXCEPT !.failed_transmissions = @ + 1], ret |-> "False", req |-> TRUE]

\* A sender: enabled flag, connection check, request.
Sender(s, enabled, c, h, okCodes) ==
    IF ~enabled
    THEN [st |-> s, ret |-> "False", req |-> FALSE]
    ELSE IF ~s.is_connected
    THEN LET r == connect(s, c) IN
         IF r.ret = "True" THEN Request(r.st, h, okCodes)
         ELSE [st |-> r.st, ret |-> r.ret, req |-> FALSE]
    ELSE Request(s, h, okCodes)

send_to_thingspeak(s, c, h) == Sender(s, USE_THINGSPEAK, c, h, {200})

send_http_post(s, c, h) == Sender(s, USE_HTTP_POST, c, h, {200, 201})

\* The transport selection of send_data and transmit_buffered_data.
Dispatch(s, c, h) ==
    IF USE_THINGSPEAK THEN send_to_thingspeak(s, c, h)
    ELSE IF USE_HTTP_POST THEN send_http_post(s, c, h)
    ELSE [st |-> s, ret |-> "False", req |-> FALSE]

Entry(d) == [data |-> d]

\* Faulty variant: buffer_data without the size limit.
buffer_data_unbounded(buf, d) == Append(buf, Entry(d))

\* Faulty variant: buffer_data with pop() in place of pop(0).
buffer_data_pop_newest(buf, d) ==
    LET appended == Append(buf, Entry(d)) IN
    IF Len(appended) > DATA_BUFFER_SIZE
    THEN SubSeq(appended, 1, Len(appended) - 1) ELSE appended

\* buffer_data: append, then drop the oldest entry when over capacity.
buffer_data(buf, d) ==
    LET appended == Append(buf, Entry(d)) IN
    IF Len(appended) > DATA_BUFFER_SIZE THEN Tail(appended) ELSE appended

\* What buffer_data pops off, as a set of readings.
Popped(buf, d) ==
    IF Len(Append(buf, Entry(d))) > DATA_BUFFER_SIZE
    THEN {Append(buf, Entry(d))[1].data} ELSE {}

\* Faulty variant: the loop walks the buffer newest first.
tbd_entry_reversed(buf, i) == buf[Len(buf) + 1 - i]

\* 'for entry in self.data_buffer': the entry of the i-th iteration.
tbd_entry(buf, i) == buf[i]

\* Faulty variant: the loop counts every entry, sent or not.
tbd_iter_count_all(tc, fe, entry, ok) ==
    IF ok THEN [transmitted_count |-> tc + 1, failed_entries |-> fe]
    ELSE [transmitted_count |-> tc + 1, failed_entries |-> Append(fe, entry)]

\* Faulty variant: a failed entry is put in front of the ones kept so far.
tbd_iter_prepend_failed(tc, fe, entry, ok) ==
    IF ok THEN [transmitted_count |-> tc + 1, failed_entries |-> fe]
    ELSE [transmitted_count |-> tc, failed_entries |-> <<entry>> \o fe]

\* The loop body after the send: count a success, keep a failure.
tbd_iter(tc, fe, entry, ok) ==
    IF ok THEN [transmitted_count |-> tc + 1, failed_entries |-> fe]
    ELSE [transmitted_count |-> tc, failed_entries |-> Append(fe, entry)]

\* Faulty variant: the drain empties the buffer whatever failed.
tbd_remaining_clear(buf, failed) == <<>>

\* 'self.data_buffer = failed_entries'.
tbd_remaining(buf, failed) == failed

\* Faulty variant: send_data buffers the reading whatever the send returned.
sd_next_always_buffer(ok) == "sd_buffer"

\* send_data after the send: return on success, buffer_data otherwise.
sd_next(ok) == IF ok THEN "returned" ELSE "sd_buffer"

BufData(buf) == {buf[i].data : i \in 1..Len(buf)}

\* ------------------------------------------------------------ arithmetic
\* The code computes in floating point; the model computes the same
\* expressions over exact fractions [n, d] in lowest terms with d > 0.
Abs(x) == IF x < 0 THEN -x ELSE x

RECURSIVE GCD(_, _)
GCD(a, b) == IF b = 0 THEN a ELSE GCD(b, a % b)

Rat(n, d) ==
    LET g == GCD(Abs(n), Abs(d))
        sgn == IF d < 0 THEN -1 ELSE 1
    IN  [n |-> sgn * (n \div g), d |-> sgn * (d \div g)]

Num(x) == [n |-> x, d |-> 1]
RAdd(a, b) ==
    LET g == GCD(a.d, b.d)
    IN  Rat(a.n * (b.d \div g) + b.n * (a.d \div g), (a.d \div g) * b.d)
RNeg(a) == [n |-> -a.n, d |-> a.d]
RSub(a, b) == RAdd(a, RNeg(b))
RMul(a, b) ==
    LET g1 == GCD(Abs(a.n), b.d)
        g2 == GCD(Abs(b.n), a.d)
    IN  Rat((a.n \div g1) * (b.n \div g2), (a.d \div g2) * (b.d \div g1))
RDiv(a, b) == RMul(a, Rat(b.d, b.n))
RLe(a, b) == a.n * b.d <= b.n * a.d
RLt(a, b) == a.n * b.d < b.n * a.d
RGe(a, b) == RLe(b, a)
RGt(a, b) == RLt(b, a)

RECURSIVE Sum(_)
Sum(q) == IF q = <<>> THEN 0 ELSE Head(q) + Sum(Tail(q))

\* --------------------------------------------------- battery monitor (power.py)
\* What line 67 of power.py can compute from an ADC count, in hundredths of
\* a volt: values below, at, between and above the three thresholds and
\* 0.95 * full.
Voltages == {290, 300, 330, 399, 440}

\* The PowerManager's fields, as one record.
PM == [voltage_samples |-> voltage_samples,
       current_voltage |-> current_voltage,
       battery_percentage |-> battery_percentage,
       is_low_battery |-> is_low_battery,
       is_critical_battery |-> is_critical_battery]

\* Faulty variant: a full window drops the newest sample.
window_push_drop_newest(win, v) ==
    IF Len(win) + 1 > max_samples THEN win ELSE Append(win, v)

\* 'voltage_samples.append(voltage)', then 'pop(0)' when over max_samples.
window_push(win, v) ==
    LET appended == Append(win, v)
    IN  IF Len(appended) > max_samples THEN Tail(appended) ELSE appended

\* read_battery_voltage: v is the voltage computed from the ADC count.
read_battery_voltage(s, v, averaged) ==
    LET win == IF averaged THEN window_push(s.voltage_samples, v)
               ELSE s.voltage_samples
        voltage == IF averaged THEN Rat(Sum(win), Len(win)) ELSE Num(v)
    IN  [s |-> [s EXCEPT !.voltage_samples = win, !.current_voltage = voltage],
         ret |-> voltage]

\* Faulty variant: no clamp below the critical voltage or above the full one.
percentage_unclamped(voltage) ==
    RMul(RDiv(RSub(voltage, Num(BATTERY_CRITICAL_VOLTAGE)),
              Num(BATTERY_FULL_VOLTAGE - BATTERY_CRITICAL_VOLTAGE)), Num(100))

\* The interpolation of get_battery_percentage.
percentage(voltage) ==
    IF RGe(voltage, Num(BATTERY_FULL_VOLTAGE)) THEN Num(100)
    ELSE IF RLe(voltage, Num(BATTERY_CRITICAL_VOLTAGE)) THEN Num(0)
    ELSE RMul(RDiv(RSub(voltage, Num(BATTERY_CRITICAL_VOLTAGE)),
                   Num(BATTERY_FULL_VOLTAGE - BATTERY_CRITICAL_VOLTAGE)),
              Num(100))

get_battery_percentage(s, v) ==
    LET r == read_battery_voltage(s, v, TRUE)
        p == percentage(r.ret)
    IN  [s |-> [r.s EXCEPT !.battery_percentage = p], ret |-> p, voltage |-> r.ret]

\* self.full_voltage * 0.95
NearFull == RMul(Num(BATTERY_FULL_VOLTAGE), Rat(95, 100))

\* Faulty variant: the comparisons with the thresholds are strict.
battery_state_strict(voltage) ==
    IF RLt(voltage, Num(BATTERY_CRITICAL_VOLTAGE)) THEN "CRITICAL"
    ELSE IF RLt(voltage, Num(BATTERY_LOW_VOLTAGE)) THEN "LOW"
    ELSE IF RGt(voltage, NearFull) THEN "FULL"
    ELSE "NORMAL"

\* The if/elif chain of get_battery_status.
battery_state(voltage) ==
    IF RLe(voltage, Num(BATTERY_CRITICAL_VOLTAGE)) THEN "CRITICAL"
    ELSE IF RLe(voltage, Num(BATTERY_LOW_VOLTAGE)) THEN "LOW"
    ELSE IF RGe(voltage, NearFull) THEN "FULL"
    ELSE "NORMAL"

\* Faulty variant: the CRITICAL branch sets only is_critical_battery.
get_battery_status_critical_only(s, v1, v2) ==
    LET r1 == read_battery_voltage(s, v1, TRUE)
        r2 == get_battery_percentage(r1.s, v2)
        state == battery_state(r1.ret)
        low == IF state = "CRITICAL" THEN s.is_low_battery ELSE state = "LOW"
        critical == state = "CRITICAL"
    IN  [s |-> [r2.s EXCEPT !.is_low_battery = low,
                            !.is_critical_battery = critical],
         ret |-> [voltage |-> r1.ret, percentage |-> r2.ret, state |-> state,
                  is_low |-> low, is_critical |-> critical]]

\* get_battery_status reads the voltage twice: once itself (v1) and once
\* through get_battery_percentage (v2).  The state and the flags come from
\* the first mean, the percentage from the second.
get_battery_status(s, v1, v2) ==
    LET r1 == read_battery_voltage(s, v1, TRUE)
        r2 == get_battery_percentage(r1.s, v2)
        state == battery_state(r1.ret)
        low == state \in {"CRITICAL", "LOW"}
        critical == state = "CRITICAL"
    IN  [s |-> [r2.s EXCEPT !.is_low_battery = low,
                            !.is_critical_battery = critical],
         ret |-> [voltage |-> r1.ret, percentage |-> r2.ret, state |-> state,
                  is_low |-> low, is_critical |-> critical]]

\* should_enter_low_power
should_enter_low_power(s) == s.is_low_battery

\* Faulty variant: the low and the critical multipliers are exchanged.
sleep_time_swapped(critical, low) ==
    IF critical THEN SENSOR_READ_INTERVAL * 2
    ELSE IF low THEN SENSOR_READ_INTERVAL * 4
    ELSE SENSOR_READ_INTERVAL

\* The if/elif chain of get_suggested_sleep_time, over the two flags.
sleep_time(critical, low) ==
    IF critical THEN SENSOR_READ_INTERVAL * 4
    ELSE IF low THEN SENSOR_READ_INTERVAL * 2
    ELSE SENSOR_READ_INTERVAL

\* get_suggested_sleep_time: one more averaged read (the percentage is
\* computed and not used), then the flags as get_battery_status left them.
get_suggested_sleep_time(s, v) ==
    LET r == get_battery_percentage(s, v)
    IN  [s |-> r.s, percentage |-> r.ret, voltage |-> r.voltage,
         ret |-> sleep_time(r.s.is_critical_battery, r.s.is_low_battery)]

NoCall == [op |-> "none", averaged |-> FALSE, voltage |-> Num(0),
           pvoltage |-> Num(0), percentage |-> Num(0), state |-> "none",
           sleep |-> 0]

\* PowerManager.__init__
PmInit ==
    /\ voltage_samples = <<>>
    /\ current_voltage = Num(0)
    /\ battery_percentage = Num(0)
    /\ is_low_battery = FALSE
    /\ is_critical_battery = FALSE
    /\ pm_call = NoCall
    /\ pm_state = "none"
    /\ adc_history = <<>>

\* ------------------------------------------------- sensor driver (bme280.py)
\* int(x): truncation towards zero.
Trunc(a) == IF a.n >= 0 THEN a.n \div a.d ELSE -((-a.n) \div a.d)

\* Calibration sets the sensor can hold.  The coefficients are chosen so
\* that every intermediate value of the compensation formulas is a fraction
\* of 32-bit numerator and denominator.  CalB has dig_P1 = 0.
CalA == [T1 |-> 27504, T2 |-> 16384, T3 |-> 0,
         P1 |-> 43750, P2 |-> 0, P3 |-> 0, P4 |-> 100, P5 |-> 8, P6 |-> -7,
         P7 |-> 160, P8 |-> 0, P9 |-> 0,
         H1 |-> 0, H2 |-> 16384, H3 |-> 0, H4 |-> 300, H5 |-> 64, H6 |-> 0]
CalB == [CalA EXCEPT !.P1 = 0]
Calibrations == {CalA, CalB}

\* The 8 bytes a burst read of 0xF7..0xFE can return: press msb, lsb, xlsb,
\* temp msb, lsb, xlsb, hum msb, lsb.
Frames == {<<80, 0, 0, 138, 48, 0, 76, 136>>,
           <<79, 0, 7, 134, 48, 0, 76, 136>>,
           <<81, 16, 0, 142, 48, 0, 75, 0>>,
           <<80, 0, 0, 138, 48, 0, 255, 255>>}

\* Python's |, &, << and >> on non-negative integers.
RECURSIVE BitOr(_, _)
BitOr(a, b) ==
    IF a = 0 THEN b
    ELSE IF b = 0 THEN a
    ELSE (IF a % 2 = 1 \/ b % 2 = 1 THEN 1 ELSE 0)
         + 2 * BitOr(a \div 2, b \div 2)
RECURSIVE BitAnd(_, _)
BitAnd(a, b) ==
    IF a = 0 \/ b = 0 THEN 0
    ELSE (IF a % 2 = 1 /\ b % 2 = 1 THEN 1 ELSE 0)
         + 2 * BitAnd(a \div 2, b \div 2)
Shl(a, k) == a * 2 ^ k
Shr(a, k) == a \div 2 ^ k

\* SimulatedI2C.readfrom_mem, the burst at 0xF7: the three raw values packed
\* into 8 bytes.
pack_burst(press_raw, temp_raw, hum_raw) ==
    <<BitAnd(Shr(press_raw, 12), 255),
      BitAnd(Shr(press_raw, 4), 255),
      BitAnd(Shl(press_raw, 4), 240),
      BitAnd(Shr(temp_raw, 12), 255),
      BitAnd(Shr(temp_raw, 4), 255),
      BitAnd(Shl(temp_raw, 4), 240),
      BitAnd(Shr(hum_raw, 8), 255),
      BitAnd(hum_raw, 255)>>

\* Faulty variant: the xlsb bytes are used without the shift.
read_raw_data_xlsb_unshifted(f) ==
    [press |-> BitOr(BitOr(Shl(f[1], 12), Shl(f[2], 4)), f[3]),
     temp |-> BitOr(BitOr(Shl(f[4], 12), Shl(f[5], 4)), f[6]),
     hum |-> BitOr(Shl(f[7], 8), f[8])]

\* _read_raw_data: the three raw values assembled from the frame.
read_raw_data(f) ==
    [press |-> BitOr(BitOr(Shl(f[1], 12), Shl(f[2], 4)), Shr(f[3], 4)),
     temp |-> BitOr(BitOr(Shl(f[4], 12), Shl(f[5], 4)), Shr(f[6], 4)),
     hum |-> BitOr(Shl(f[7], 8), f[8])]

\* _compensate_temperature: the new t_fine and the temperature.
compensate_temperature(c, raw_temp) ==
    LET var1 == RMul(RSub(Rat(raw_temp, 16384), Rat(c.T1, 1024)), Num(c.T2))
        x == RSub(Rat(raw_temp, 131072), Rat(c.T1, 8192))
        var2 == RMul(RMul(x, x), Num(c.T3))
        tf == Trunc(RAdd(var1, var2))
    IN  [t_fine |-> tf, ret |-> Rat(tf, 5120)]

\* _compensate_pressure, lines 176-181: the term the pressure is divided
\* by.  Products are associated so that the factors cancel before they are
\* multiplied.
pressure_var1(c, tf) ==
    LET v1 == RSub(Rat(tf, 2), Num(64000))
        v1a == RMul(RAdd(RMul(v1, RMul(v1, Rat(c.P3, 524288))),
                         RMul(v1, Num(c.P2))), Rat(1, 524288))
    IN  RMul(RAdd(Num(1), RMul(v1a, Rat(1, 32768))), Num(c.P1))

\* What a division by zero leaves instead of a value: ZeroDivisionError.
ZeroDivision == [n |-> 0, d |-> 0]

\* Faulty variant: no test of var1; the division raises when it is 0.
compensate_pressure_unguarded(c, tf, raw_press) ==
    LET v1 == RSub(Rat(tf, 2), Num(64000))
        v2a == RMul(v1, RMul(v1, Rat(c.P6, 32768)))
        v2b == RAdd(v2a, RMul(v1, Num(c.P5 * 2)))
        v2c == RAdd(RMul(v2b, Rat(1, 4)), Num(c.P4 * 65536))
        v1b == pressure_var1(c, tf)
        p0 == Num(1048576 - raw_press)
        p1 == RMul(RSub(p0, RMul(v2c, Rat(1, 4096))), RDiv(Num(6250), v1b))
        w1 == RMul(p1, RMul(p1, RMul(Rat(c.P9, 32768), Rat(1, 65536))))
        w2 == RMul(p1, Rat(c.P8, 32768))
        p2 == RAdd(p1, RMul(RAdd(RAdd(w1, w2), Num(c.P7)), Rat(1, 16)))
    IN  IF v1b.n = 0 THEN ZeroDivision ELSE RMul(p2, Rat(1, 100))

\* _compensate_pressure with the t_fine it finds in the object.
compensate_pressure(c, tf, raw_press) ==
    LET v1 == RSub(Rat(tf, 2), Num(64000))
        v2a == RMul(v1, RMul(v1, Rat(c.P6, 32768)))
        v2b == RAdd(v2a, RMul(v1, Num(c.P5 * 2)))
        v2c == RAdd(RMul(v2b, Rat(1, 4)), Num(c.P4 * 65536))
        v1b == pressure_var1(c, tf)
        p0 == Num(1048576 - raw_press)
        p1 == RMul(RSub(p0, RMul(v2c, Rat(1, 4096))), RDiv(Num(6250), v1b))
        w1 == RMul(p1, RMul(p1, RMul(Rat(c.P9, 32768), Rat(1, 65536))))
        w2 == RMul(p1, Rat(c.P8, 32768))
        p2 == RAdd(p1, RMul(RAdd(RAdd(w1, w2), Num(c.P7)), Rat(1, 16)))
    IN  IF v1b.n = 0 THEN Num(0) ELSE RMul(p2, Rat(1, 100))

\* _compensate_humidity, lines 196-200: the value before the clamp.
humidity_polynomial(c, tf, raw_hum) ==
    LET h0 == Num(tf - 76800)
        a == RSub(Num(raw_hum),
                  RAdd(Num(c.H4 * 64), RMul(Rat(c.H5, 16384), h0)))
        inner == RAdd(Num(1), RMul(Rat(c.H3, 67108864), h0))
        b == RMul(Rat(c.H2, 65536),
                  RAdd(Num(1), RMul(RMul(Rat(c.H6, 67108864), h0), inner)))
        h1 == RMul(a, b)
    IN  RMul(h1, RSub(Num(1), RMul(Rat(c.H1, 524288), h1)))

\* Faulty variant: the upper clamp is missing.
compensate_humidity_no_upper_clamp(c, tf, raw_hum) ==
    LET h2 == humidity_polynomial(c, tf, raw_hum)
    IN  IF RLt(h2, Num(0)) THEN Num(0) ELSE h2

\* _compensate_humidity with the t_fine it finds in the object.
compensate_humidity(c, tf, raw_hum) ==
    LET h2 == humidity_polynomial(c, tf, raw_hum)
    IN  IF RGt(h2, Num(100)) THEN Num(100)
        ELSE IF RLt(h2, Num(0)) THEN Num(0)
        ELSE h2

\* Faulty variant: pressure and humidity are compensated before the
\* temperature, with the t_fine the previous call left.
read_compensated_data_stale(c, tf, f) ==
    LET raw == read_raw_data(f)
        t == compensate_temperature(c, raw.temp)
    IN  [t_fine |-> t.t_fine,
         temperature |-> t.ret,
         pressure |-> compensate_pressure(c, tf, raw.press),
         humidity |-> compensate_humidity(c, tf, raw.hum)]

\* read_compensated_data on frame f: the temperature first, which stores
\* t_fine, then pressure and humidity, which read it.
read_compensated_data(c, tf, f) ==
    LET raw == read_raw_data(f)
        t == compensate_temperature(c, raw.temp)
    IN  [t_fine |-> t.t_fine,
         temperature |-> t.ret,
         pressure |-> compensate_pressure(c, t.t_fine, raw.press),
         humidity |-> compensate_humidity(c, t.t_fine, raw.hum)]

\* calculate_dew_point: a = 17.27, b = 237.7.
calculate_dew_point(temperature_c, humidity_percent) ==
    LET a == Rat(1727, 100)
        b == Rat(2377, 10)
        alpha == RAdd(RDiv(RMul(a, temperature_c), RAdd(b, temperature_c)),
                      RMul(humidity_percent, Rat(1, 100)))
    IN  RDiv(RMul(b, alpha), RSub(a, alpha))

\* A register write: _write_byte(reg, value).
Write(reg, value) == [reg |-> reg, value |-> value]

\* Faulty variant: the combined register is configured first.
set_mode_ctrl_first(mode, temp_os, hum_os, press_os) ==
    <<Write(REG_CONTROL, temp_os * 32 + press_os * 4 + mode),
      Write(REG_CONTROL_HUM, hum_os),
      Write(REG_CONFIG, 160)>>

\* set_mode: the register writes it makes, in order.  The three fields of
\* ctrl_meas do not overlap for the driver's modes and oversamplings, so the
\* bitwise or is a sum.
set_mode(mode, temp_os, hum_os, press_os) ==
    <<Write(REG_CONTROL_HUM, hum_os),
      Write(REG_CONTROL, temp_os * 32 + press_os * 4 + mode),
      Write(REG_CONFIG, 160)>>

\* The arguments __init__ passes to set_mode: MODE_NORMAL, OVERSAMPLE_X2,
\* OVERSAMPLE_X1, OVERSAMPLE_X16.
DefaultMode == [mode |-> 3, temp_os |-> 2, hum_os |-> 1, press_os |-> 5]

\* The order in which _load_calibration assigns the coefficients.
CalOrder == <<"T1", "T2", "T3", "P1", "P2", "P3", "P4", "P5", "P6", "P7",
              "P8", "P9", "H1", "H2", "H3", "H4", "H5", "H6">>
CalIndex(f) == CHOOSE i \in DOMAIN CalOrder : CalOrder[i] = f

\* _load_calibration on a chip holding the coefficients 'chip': k
\* coefficients are assigned before a bus read raises (all of them when k
\* is the number of coefficients).
load_calibration(old, chip, k) ==
    [f \in DOMAIN old |-> IF CalIndex(f) <= k THEN chip[f] ELSE old[f]]

\* The two formulas with a real exponent stand for themselves: the value is
\* the term with its arguments.
calculate_altitude(pressure_hpa, sea_level_pressure) ==
    [fn |-> "altitude", pressure |-> pressure_hpa, arg |-> sea_level_pressure]

\* calculate_sea_level_pressure calls read_compensated_data itself: f is the
\* frame of that burst read.
calculate_sea_level_pressure(c, tf, f, altitude_m) ==
    LET r == read_compensated_data(c, tf, f)
    IN  [t_fine |-> r.t_fine,
         ret |-> [fn |-> "sea_level", pressure |-> r.pressure,
                  arg |-> Num(altitude_m)]]

NoTerm == [fn |-> "none", pressure |-> Num(0), arg |-> Num(0)]
\* op, args (of calculate_dew_point), frames, t_fine_before, raised, value
\* and term describe the last call;
\* temperature, pressure and humidity are the compensated values its caller
\* holds (held), those of the last read_compensated_data it made.
NoBmeCall == [op |-> "none", args |-> <<>>, frames |-> <<>>, raw |-> <<>>,
              t_fine_before |-> 0,
              raised |-> FALSE, held |-> FALSE, temperature |-> Num(0),
              pressure |-> Num(0), humidity |-> Num(0), value |-> Num(0),
              term |-> NoTerm]

\* BME280.__init__ after _load_calibration.
BmeInit ==
    /\ t_fine = 0
    /\ bme_call = NoBmeCall

\* --------------------------------------------------- orchestrator (main.py)
NoReading == [id |-> 0, temperature |-> Num(0), humidity |-> Num(0),
              pressure |-> Num(0), dew_point |-> Num(0),
              sea_level_pressure |-> NoTerm, battery_voltage |-> Num(0),
              battery_percent |-> Num(0), battery_state |-> "none",
              error_count |-> 0]

\* WeatherStation.__init__, once the sensor was (or was not) found.
StInit ==
    /\ st = "boot"
    /\ error_count = 0
    /\ sleep_seconds = 0
    /\ reading = NoReading
    /\ cycle = 0
    /\ consec_failed = 0
    /\ compensated = FALSE
    /\ classified = FALSE
    /\ burst_reads = 0
    /\ interrupted = FALSE
    /\ drains = 0
    /\ buf_at_shutdown = <<>>

\* ------------------------------------------------------------------- Init
WmInit ==
    /\ USE_THINGSPEAK \in BOOLEAN
    /\ USE_HTTP_POST \in BOOLEAN
    /\ wlan_active = TRUE
    /\ wlan_connected \in BOOLEAN
    /\ is_connected = FALSE
    /\ connection_attempts = 0
    /\ failed_transmissions = 0
    /\ data_buffer = <<>>
    /\ pc = "idle"
    /\ op = "none"
    /\ nested = FALSE
    /\ data = 0
    /\ success = FALSE
    /\ transmitted_count = 0
    /\ failed_entries = <<>>
    /\ idx = 0
    /\ ret = "None"
    /\ tbd_ret = -1
    /\ reading_count = 0
    /\ delivered = {}
    /\ evicted = {}
    /\ log = <<>>
    /\ buf_at_call = <<>>

\* No connect() in progress; the sensor was configured by its constructor.
AuxInit ==
    /\ joining = FALSE
    /\ phase = 0
    /\ waited = 0
    /\ i2c_writes = set_mode(DefaultMode.mode, DefaultMode.temp_os,
                             DefaultMode.hum_os, DefaultMode.press_os)

Init ==
    /\ WmInit
    /\ PmInit
    /\ BmeInit
    /\ dig = CalA
    /\ StInit
    /\ bme_ok = TRUE
    /\ AuxInit


\* ------------------------------------------------------------ call frames
SetWM(s) ==
    /\ wlan_connected' = s.wlan_connected
    /\ is_connected' = s.is_connected
    /\ connection_attempts' = s.connection_attempts
    /\ failed_transmissions' = s.failed_transmissions

\* The counters stay within the model's caps.
WithinCaps(s) ==
    /\ s.failed_transmissions <= MaxFailed
    /\ s.connection_attempts <= MaxAttempts

\* The client makes call o with reading d.
Enter(o, d) ==
    /\ pc = "idle"
    /\ op' = o
    /\ data' = d
    /\ log' = <<>>
    /\ buf_at_call' = data_buffer
    /\ tbd_ret' = -1
    /\ success' = FALSE
    /\ nested' = FALSE

\* A fresh reading: the record read_sensors builds carries reading_count,
\* which it then increments.
NewReading ==
    /\ reading_count < MaxReadings
    /\ reading_count' = reading_count + 1

\* An exception leaves send_data: transmit_data's except clause returns
\* False; any other caller sees the exception.
Raise ==
    /\ pc' = "returned"
    /\ ret' = IF op = "transmit_data" THEN "False" ELSE "raised"

\* ---------------------------------------------------------- client calls
\* WeatherStation.transmit_data(data) with a reading: enters send_data
\* inside the try block.
CallTransmitData ==
    /\ NewReading
    /\ Enter("transmit_data", reading_count + 1)
    /\ pc' = "sd_begin"
    /\ ret' = "None"
    /\ UNCHANGED <<config_vars, wlan_vars, is_connected, connection_attempts,
                   failed_transmissions, data_buffer, tbd_locals, delivered, evicted>>

\* WeatherStation.transmit_data(None): 'if not data: return False'.
CallTransmitNone ==
    /\ Enter("transmit_data", 0)
    /\ pc' = "returned"
    /\ ret' = "False"
    /\ UNCHANGED <<config_vars, wlan_vars, is_connected, connection_attempts,
                   failed_transmissions, data_buffer, tbd_locals, ghost_vars>>

\* WiFiManager.send_data(data) called directly.
CallSendData ==
    /\ NewReading
    /\ Enter("send_data", reading_count + 1)
    /\ pc' = "sd_begin"
    /\ ret' = "None"
    /\ UNCHANGED <<config_vars, wlan_vars, is_connected, connection_attempts,
                   failed_transmissions, data_buffer, tbd_locals, delivered, evicted>>

\* WiFiManager.transmit_buffered_data() called directly (shutdown).
CallTransmitBuffered ==
    /\ Enter("transmit_buffered_data", 0)
    /\ pc' = "tbd_begin"
    /\ ret' = "None"
    /\ UNCHANGED <<config_vars, wlan_vars, is_connected, connection_attempts,
                   failed_transmissions, data_buffer, tbd_locals, ghost_vars>>

\* WiFiManager.buffer_data(data) called directly.
CallBufferData ==
    /\ NewReading
    /\ Enter("buffer_data", reading_count + 1)
    /\ data_buffer' = buffer_data(data_buffer, reading_count + 1)
    /\ evicted' = evicted \cup Popped(data_buffer, reading_count + 1)
    /\ pc' = "returned"
    /\ ret' = "None"
    /\ UNCHANGED <<config_vars, wlan_vars, is_connected, connection_attempts,
                   failed_transmissions, tbd_locals, delivered>>

\* WiFiManager.connect() called directly (station start-up, diagnostics).
CallConnect ==
    /\ Enter("connect", 0)
    /\ \E c \in ConnectOutcomes :
         LET r == connect(WM, c) IN
         /\ WithinCaps(r.st)
         /\ SetWM(r.st)
         /\ ret' = r.ret
    /\ pc' = "returned"
    /\ UNCHANGED <<config_vars, wlan_active, data_buffer, tbd_locals, ghost_vars>>

\* WiFiManager.disconnect() (enter_sleep, shutdown).
CallDisconnect ==
    /\ Enter("disconnect", 0)
    /\ wlan_connected' = FALSE
    /\ wlan_active' = FALSE
    /\ is_connected' = FALSE
    /\ pc' = "returned"
    /\ ret' = "None"
    /\ UNCHANGED <<config_vars, connection_attempts, failed_transmissions,
                   data_buffer, tbd_locals, ghost_vars>>

\* The client has seen the result.
Resume ==
    /\ pc = "returned"
    /\ pc' = "idle"
    /\ op' = "none"
    /\ data' = 0
    /\ log' = <<>>
    /\ buf_at_call' = <<>>
    /\ ret' = "None"
    /\ tbd_ret' = -1
    /\ success' = FALSE
    /\ nested' = FALSE
    /\ transmitted_count' = 0
    /\ failed_entries' = <<>>
    /\ idx' = 0
    /\ UNCHANGED <<config_vars, wlan_vars, is_connected, connection_attempts,
                   failed_transmissions, data_buffer, ghost_vars>>

\* The access point drops the link; the manager's flag is not told.
LinkLost ==
    /\ wlan_connected
    /\ wlan_connected' = FALSE
    /\ UNCHANGED <<config_vars, wlan_active, is_connected, connection_attempts,
                   failed_transmissions, data_buffer, pc, op, nested, data, success,
                   tbd_locals, ret, tbd_ret, ghost_vars, log, buf_at_call>>


\* ----------------------------------------------- steps inside the manager
\* One transmit attempt: the reading, what the sender did ("True", "False",
\* "raised") and whether the HTTP request was issued.
LogEntry(d, r) == [data |-> d, res |-> r.ret, req |-> r.req]

\* transmit_buffered_data returns n: to send_data's next statement when it
\* was called from there, to the client otherwise.
TbdReturn(n) ==
    /\ tbd_ret' = n
    /\ pc' = IF nested THEN "sd_send" ELSE "returned"
    /\ ret' = IF nested THEN ret ELSE "count"

\* send_data, up to the call of transmit_buffered_data.
SdBegin ==
    /\ pc = "sd_begin"
    /\ IF data_buffer # <<>>
       THEN pc' = "tbd_begin" /\ nested' = TRUE
       ELSE pc' = "sd_send" /\ nested' = FALSE
    /\ UNCHANGED <<config_vars, wlan_vars, is_connected, connection_attempts,
                   failed_transmissions, data_buffer, op, data, success, tbd_locals,
                   ret, tbd_ret, ghost_vars, log, buf_at_call>>

\* transmit_buffered_data, up to the for loop.
TbdBegin ==
    /\ pc = "tbd_begin"
    /\ IF data_buffer = <<>>
       THEN /\ TbdReturn(0)
            /\ UNCHANGED <<wlan_connected, is_connected, connection_attempts,
                           failed_transmissions, tbd_locals>>
       ELSE \E c \in ConnectOutcomes :
            LET r == IF is_connected THEN [st |-> WM, ret |-> "True"]
                     ELSE connect(WM, c) IN
            /\ WithinCaps(r.st)
            /\ SetWM(r.st)
            /\ IF r.ret = "True"
               THEN /\ transmitted_count' = 0
                    /\ failed_entries' = <<>>
                    /\ idx' = 1
                    /\ pc' = "tbd_loop"
                    /\ UNCHANGED <<ret, tbd_ret>>
               ELSE IF r.ret = "False"
               THEN TbdReturn(0) /\ UNCHANGED tbd_locals
               ELSE Raise /\ UNCHANGED <<tbd_ret, tbd_locals>>
    /\ UNCHANGED <<config_vars, wlan_active, data_buffer, op, nested, data, success,
                   ghost_vars, log, buf_at_call>>

\* One iteration of 'for entry in self.data_buffer'.
TbdIter ==
    /\ pc = "tbd_loop"
    /\ idx <= Len(data_buffer)
    /\ \E c \in ConnectOutcomes, h \in HttpOutcomes :
         LET entry == tbd_entry(data_buffer, idx)
             r == Dispatch(WM, c, h)
             l == tbd_iter(transmitted_count, failed_entries, entry, r.ret = "True") IN
         /\ WithinCaps(r.st)
         /\ SetWM(r.st)
         /\ log' = Append(log, LogEntry(entry.data, r))
         /\ delivered' = IF r.ret = "True" THEN delivered \cup {entry.data} ELSE delivered
         /\ IF r.ret = "raised"
            THEN Raise /\ UNCHANGED tbd_locals
            ELSE /\ transmitted_count' = l.transmitted_count
                 /\ failed_entries' = l.failed_entries
                 /\ idx' = idx + 1
                 /\ UNCHANGED <<pc, ret>>
    /\ UNCHANGED <<config_vars, wlan_active, data_buffer, op, nested, data, success,
                   tbd_ret, reading_count, evicted, buf_at_call>>

\* After the loop: 'self.data_buffer = failed_entries; return transmitted_count'.
TbdEnd ==
    /\ pc = "tbd_loop"
    /\ idx > Len(data_buffer)
    /\ data_buffer' = tbd_remaining(data_buffer, failed_entries)
    /\ TbdReturn(transmitted_count)
    /\ UNCHANGED <<config_vars, wlan_vars, is_connected, connection_attempts,
                   failed_transmissions, op, nested, data, success, tbd_locals,
                   ghost_vars, log, buf_at_call>>

\* send_data: 'Send current data'.
SdSend ==
    /\ pc = "sd_send"
    /\ \E c \in ConnectOutcomes, h \in HttpOutcomes :
         LET r == Dispatch(WM, c, h) IN
         /\ WithinCaps(r.st)
         /\ SetWM(r.st)
         /\ log' = Append(log, LogEntry(data, r))
         /\ delivered' = IF r.ret = "True" THEN delivered \cup {data} ELSE delivered
         /\ IF r.ret = "raised"
            THEN Raise /\ UNCHANGED success
            ELSE /\ success' = (r.ret = "True")
                 /\ pc' = sd_next(r.ret = "True")
                 /\ ret' = IF pc' = "returned" THEN "True" ELSE ret
    /\ UNCHANGED <<config_vars, wlan_active, data_buffer, op, nested, data,
                   tbd_locals, tbd_ret, reading_count, evicted, buf_at_call>>

\* send_data: 'if not success: self.buffer_data(data)', then 'return success'.
SdBuffer ==
    /\ pc = "sd_buffer"
    /\ data_buffer' = buffer_data(data_buffer, data)
    /\ evicted' = evicted \cup Popped(data_buffer, data)
    /\ pc' = "returned"
    /\ ret' = IF success THEN "True" ELSE "False"
    /\ UNCHANGED <<config_vars, wlan_vars, is_connected, connection_attempts,
                   failed_transmissions, op, nested, data, success, tbd_locals,
                   tbd_ret, reading_count, delivered, log, buf_at_call>>

Next ==
    \/ CallTransmitData /\ UNCHANGED <<pm_vars, bme_vars, st_vars, aux_vars>>
    \/ CallTransmitNone /\ UNCHANGED <<pm_vars, bme_vars, st_vars, aux_vars>>
    \/ CallSendData /\ UNCHANGED <<pm_vars, bme_vars, st_vars, aux_vars>>
    \/ CallTransmitBuffered /\ UNCHANGED <<pm_vars, bme_vars, st_vars, aux_vars>>
    \/ CallBufferData /\ UNCHANGED <<pm_vars, bme_vars, st_vars, aux_vars>>
    \/ CallConnect /\ UNCHANGED <<pm_vars, bme_vars, st_vars, aux_vars>>
    \/ CallDisconnect /\ UNCHANGED <<pm_vars, bme_vars, st_vars, aux_vars>>
    \/ Resume /\ UNCHANGED <<pm_vars, bme_vars, st_vars, aux_vars>>
    \/ LinkLost /\ UNCHANGED <<pm_vars, bme_vars, st_vars, aux_vars>>
    \/ SdBegin /\ UNCHANGED <<pm_vars, bme_vars, st_vars, aux_vars>>
    \/ TbdBegin /\ UNCHANGED <<pm_vars, bme_vars, st_vars, aux_vars>>
    \/ TbdIter /\ UNCHANGED <<pm_vars, bme_vars, st_vars, aux_vars>>
    \/ TbdEnd /\ UNCHANGED <<pm_vars, bme_vars, st_vars, aux_vars>>
    \/ SdSend /\ UNCHANGED <<pm_vars, bme_vars, st_vars, aux_vars>>
    \/ SdBuffer /\ UNCHANGED <<pm_vars, bme_vars, st_vars, aux_vars>>

Spec == Init /\ [][Next]_vars


\* ------------------------------------------- the battery monitor's callers
SetPM(s) ==
    /\ voltage_samples' = s.voltage_samples
    /\ current_voltage' = s.current_voltage
    /\ battery_percentage' = s.battery_percentage
    /\ is_low_battery' = s.is_low_battery
    /\ is_critical_battery' = s.is_critical_battery

\* The averaged reads of one call enter the history in order.
Sampled(vs) ==
    /\ Len(adc_history) + Len(vs) <= MaxAdcReads
    /\ adc_history' = adc_history \o vs

CallReadBatteryVoltage ==
    \E v \in Voltages, averaged \in BOOLEAN :
        LET r == read_battery_voltage(PM, v, averaged)
        IN  /\ Sampled(IF averaged THEN <<v>> ELSE <<>>)
            /\ SetPM(r.s)
            /\ pm_call' = [NoCall EXCEPT !.op = "read_battery_voltage",
                                         !.averaged = averaged,
                                         !.voltage = r.ret]
            /\ UNCHANGED pm_state

CallGetBatteryPercentage ==
    \E v \in Voltages :
        LET r == get_battery_percentage(PM, v)
        IN  /\ Sampled(<<v>>)
            /\ SetPM(r.s)
            /\ pm_call' = [NoCall EXCEPT !.op = "get_battery_percentage",
                                         !.averaged = TRUE,
                                         !.voltage = r.voltage,
                                         !.pvoltage = r.voltage,
                                         !.percentage = r.ret]
            /\ UNCHANGED pm_state

CallGetBatteryStatus ==
    \E v1 \in Voltages, v2 \in Voltages :
        LET r == get_battery_status(PM, v1, v2)
        IN  /\ Sampled(<<v1, v2>>)
            /\ SetPM(r.s)
            /\ pm_call' = [NoCall EXCEPT !.op = "get_battery_status",
                                         !.averaged = TRUE,
                                         !.voltage = r.ret.voltage,
                                         !.pvoltage = r.s.current_voltage,
                                         !.percentage = r.ret.percentage,
                                         !.state = r.ret.state]
            /\ pm_state' = r.ret.state

CallGetSuggestedSleepTime ==
    \E v \in Voltages :
        LET r == get_suggested_sleep_time(PM, v)
        IN  /\ Sampled(<<v>>)
            /\ SetPM(r.s)
            /\ pm_call' = [NoCall EXCEPT !.op = "get_suggested_sleep_time",
                                         !.averaged = TRUE,
                                         !.voltage = r.voltage,
                                         !.pvoltage = r.voltage,
                                         !.percentage = r.percentage,
                                         !.sleep = r.ret]
            /\ UNCHANGED pm_state

\* The battery monitor on its own: the other components stay as constructed
\* under config.py's settings.
InitPower ==
    /\ Init
    /\ USE_THINGSPEAK
    /\ ~USE_HTTP_POST
    /\ ~wlan_connected

NextPower ==
    \/ CallReadBatteryVoltage /\ UNCHANGED <<wifi_vars, bme_vars, st_vars, aux_vars>>
    \/ CallGetBatteryPercentage /\ UNCHANGED <<wifi_vars, bme_vars, st_vars, aux_vars>>
    \/ CallGetBatteryStatus /\ UNCHANGED <<wifi_vars, bme_vars, st_vars, aux_vars>>
    \/ CallGetSuggestedSleepTime /\ UNCHANGED <<wifi_vars, bme_vars, st_vars, aux_vars>>

SpecPower == InitPower /\ [][NextPower]_vars

\* ------------------------------------------------ the sensor driver's callers
STATION_ELEVATION == 190

\* A call of op begins: nothing read, nothing returned yet; the caller
\* keeps the values it holds.
BmeCall(o) == [bme_call EXCEPT !.op = o, !.args = <<>>, !.frames = <<>>,
                               !.raw = <<>>,
                               !.t_fine_before = t_fine, !.raised = FALSE,
                               !.value = Num(0), !.term = NoTerm]

\* read_compensated_data: the burst read returns a frame of fs or raises
\* OSError.
ReadCompensatedData(fs) ==
    \/ \E f \in fs :
        LET r == read_compensated_data(dig, t_fine, f)
        IN  /\ t_fine' = r.t_fine
            /\ bme_call' = [BmeCall("read_compensated_data") EXCEPT
                               !.frames = <<f>>,
                               !.held = TRUE,
                               !.temperature = r.temperature,
                               !.pressure = r.pressure,
                               !.humidity = r.humidity]
            /\ UNCHANGED dig
    \/ /\ bme_call' = [NoBmeCall EXCEPT !.op = "read_compensated_data",
                                        !.t_fine_before = t_fine,
                                        !.raised = TRUE]
       /\ UNCHANGED <<dig, t_fine>>

CallReadCompensatedData == ReadCompensatedData(Frames)

CallCalculateDewPoint ==
    /\ bme_call.held
    /\ bme_call' = [BmeCall("calculate_dew_point") EXCEPT
                       !.value = calculate_dew_point(bme_call.temperature,
                                                     bme_call.humidity)]
    /\ UNCHANGED <<dig, t_fine>>

\* calculate_dew_point(temperature_c, humidity_percent) on values of the
\* caller's choosing.
DewPointInputs == {<<Num(25), Num(60)>>, <<Num(20), Num(50)>>}
CallCalculateDewPointOf ==
    /\ \E a \in DewPointInputs :
         bme_call' = [BmeCall("calculate_dew_point") EXCEPT
                         !.args = a,
                         !.value = calculate_dew_point(a[1], a[2])]
    /\ UNCHANGED <<dig, t_fine>>

CallCalculateAltitude ==
    /\ bme_call.held
    /\ bme_call' = [BmeCall("calculate_altitude") EXCEPT
                       !.term = calculate_altitude(bme_call.pressure,
                                                   Rat(101325, 100))]
    /\ UNCHANGED <<dig, t_fine>>

\* calculate_sea_level_pressure(altitude_m): its own burst read returns a
\* frame of fs or raises OSError.
CalculateSeaLevelPressure(fs) ==
    /\ bme_call.held
    /\ \/ \E f \in fs :
            LET r == calculate_sea_level_pressure(dig, t_fine, f, STATION_ELEVATION)
            IN  /\ t_fine' = r.t_fine
                /\ bme_call' = [BmeCall("calculate_sea_level_pressure") EXCEPT
                                   !.frames = <<f>>,
                                   !.term = r.ret]
                /\ UNCHANGED dig
       \/ /\ bme_call' = [BmeCall("calculate_sea_level_pressure") EXCEPT
                             !.raised = TRUE]
          /\ UNCHANGED <<dig, t_fine>>

CallCalculateSeaLevelPressure == CalculateSeaLevelPressure(Frames)

\* What a caller may pass to set_mode: the defaults, or MODE_SLEEP with
\* OVERSAMPLE_X16 for temperature and humidity and OVERSAMPLE_X1 for pressure.
ModeSettings == {DefaultMode,
                 [mode |-> 0, temp_os |-> 5, hum_os |-> 5, press_os |-> 1]}

\* Faulty variant: set_mode loads the calibration again.
CallSetMode_reloads ==
    /\ \E m \in ModeSettings, k \in 0..3 :
         /\ i2c_writes' = SubSeq(set_mode(m.mode, m.temp_os, m.hum_os,
                                           m.press_os), 1, k)
         /\ bme_call' = [BmeCall("set_mode") EXCEPT !.raised = (k < 3)]
    /\ dig' \in Calibrations
    /\ UNCHANGED t_fine

\* set_mode(...): each of the three writes can raise OSError, which ends
\* the call after the k writes made so far.
CallSetMode ==
    /\ \E m \in ModeSettings, k \in 0..3 :
         /\ i2c_writes' = SubSeq(set_mode(m.mode, m.temp_os, m.hum_os,
                                           m.press_os), 1, k)
         /\ bme_call' = [BmeCall("set_mode") EXCEPT !.raised = (k < 3)]
    /\ UNCHANGED <<dig, t_fine>>

\* Where a bus read can fail during _load_calibration: at once, after the
\* temperature coefficients, after dig_P1, or not at all.
LoadStops == {0, 3, 4, Len(CalOrder)}

\* soft_reset(): the reset command, then _load_calibration; set_mode is not
\* called.  The write or one of the reads can raise OSError.
CallSoftReset ==
    \/ /\ bme_call' = [BmeCall("soft_reset") EXCEPT !.raised = TRUE]
       /\ i2c_writes' = <<>>
       /\ UNCHANGED <<dig, t_fine>>
    \/ \E chip \in Calibrations, k \in LoadStops :
         /\ i2c_writes' = <<Write(REG_SOFTRESET, 182)>>
         /\ dig' = load_calibration(dig, chip, k)
         /\ bme_call' = [BmeCall("soft_reset") EXCEPT
                            !.raised = (k < Len(CalOrder))]
         /\ UNCHANGED t_fine

\* BME280(i2c): the chip identity, _load_calibration, set_mode with the
\* defaults, t_fine = 0.  When a step raises no object is made and the
\* caller is left with the one it had.
CallConstruct ==
    \/ /\ bme_call' = [BmeCall("__init__") EXCEPT !.raised = TRUE]
       /\ UNCHANGED <<dig, t_fine, i2c_writes>>
    \/ \E chip \in Calibrations :
         /\ dig' = load_calibration(dig, chip, Len(CalOrder))
         /\ i2c_writes' = set_mode(DefaultMode.mode, DefaultMode.temp_os,
                                    DefaultMode.hum_os, DefaultMode.press_os)
         /\ t_fine' = 0
         /\ bme_call' = [NoBmeCall EXCEPT !.op = "__init__"]

\* The sensor driver on its own, with either calibration set loaded.
InitSensor ==
    /\ WmInit
    /\ USE_THINGSPEAK
    /\ ~USE_HTTP_POST
    /\ ~wlan_connected
    /\ PmInit
    /\ BmeInit
    /\ dig \in Calibrations
    /\ StInit
    /\ bme_ok = TRUE
    /\ AuxInit

NextSensor ==
    \/ CallReadCompensatedData /\ UNCHANGED <<wifi_vars, pm_vars, st_vars, aux_vars>>
    \/ CallCalculateDewPoint /\ UNCHANGED <<wifi_vars, pm_vars, st_vars, aux_vars>>
    \/ CallCalculateAltitude /\ UNCHANGED <<wifi_vars, pm_vars, st_vars, aux_vars>>
    \/ CallCalculateSeaLevelPressure /\ UNCHANGED <<wifi_vars, pm_vars, st_vars, aux_vars>>
    \/ CallCalculateDewPointOf /\ UNCHANGED <<wifi_vars, pm_vars, st_vars, aux_vars>>
    \/ CallSetMode /\ UNCHANGED <<wifi_vars, pm_vars, st_vars, conn_vars>>
    \/ CallSoftReset /\ UNCHANGED <<wifi_vars, pm_vars, st_vars, conn_vars>>
    \/ CallConstruct /\ UNCHANGED <<wifi_vars, pm_vars, st_vars, conn_vars>>

SpecSensor == InitSensor /\ [][NextSensor]_vars

\* --------------------------------------------------- the station (main.py)
\* What the environment offers the station: one frame, two battery levels.
StationFrames == {<<80, 0, 0, 138, 48, 0, 76, 136>>}
StationVoltages == {290, 399}

\* The WiFi manager's variables other than the radio and the connection.
wm_call_vars == <<pc, op, nested, data, success, tbd_locals, ret, tbd_ret,
                  log, buf_at_call>>
wm_rest == <<config_vars, connection_attempts, failed_transmissions,
             data_buffer, wm_call_vars, ghost_vars>>

\* WiFiManager.disconnect().
Disconnected ==
    /\ wlan_connected' = FALSE
    /\ wlan_active' = FALSE
    /\ is_connected' = FALSE

\* WeatherStation.__init__, lines 72-79: connect, and disconnect again when
\* the connection came up.  An exception of connect leaves the constructor
\* and is caught by main().
StBoot ==
    /\ st = "boot"
    /\ \E c \in ConnectOutcomes :
         LET r == connect(WM, c) IN
         /\ WithinCaps(r.st)
         /\ IF r.ret = "True"
            THEN /\ Disconnected
                 /\ connection_attempts' = r.st.connection_attempts
                 /\ failed_transmissions' = r.st.failed_transmissions
            ELSE SetWM(r.st) /\ UNCHANGED wlan_active
         /\ st' = IF r.ret = "raised" THEN "fatal" ELSE "read"
    /\ UNCHANGED <<config_vars, data_buffer, wm_call_vars, ghost_vars, pm_vars,
                   bme_vars, bme_ok, error_count, sleep_seconds, reading, cycle,
                   consec_failed, cycle_ghosts, interrupted, shutdown_ghosts>>

\* run_once -> read_sensors, up to line 124: no sensor object, or the burst
\* read and the compensation, or the exception handler of line 158.
StRead ==
    /\ st = "read"
    /\ cycle < MaxCycles
    /\ cycle' = cycle + 1
    /\ classified' = FALSE
    /\ IF ~bme_ok
       THEN /\ st' = "no_data"
            /\ compensated' = FALSE
            /\ burst_reads' = 0
            /\ UNCHANGED <<error_count, bme_vars>>
       ELSE /\ ReadCompensatedData(StationFrames)
            /\ compensated' = ~bme_call'.raised
            /\ burst_reads' = IF bme_call'.raised THEN 0 ELSE 1
            /\ error_count' = IF bme_call'.raised THEN error_count + 1
                              ELSE error_count
            /\ st' = IF bme_call'.raised THEN "no_data" ELSE "derive"
    /\ UNCHANGED <<wifi_vars, pm_vars, bme_ok, sleep_seconds, reading,
                   consec_failed, interrupted, shutdown_ghosts>>

\* read_sensors, lines 126-133: the offsets (0.0 in config.py), the dew
\* point and the sea-level pressure, which reads the sensor again.
StDerive ==
    /\ st = "derive"
    /\ CalculateSeaLevelPressure(StationFrames)
    /\ burst_reads' = IF bme_call'.raised THEN burst_reads ELSE burst_reads + 1
    /\ error_count' = IF bme_call'.raised THEN error_count + 1 ELSE error_count
    /\ st' = IF bme_call'.raised THEN "no_data" ELSE "annotate"
    /\ reading' = IF bme_call'.raised THEN reading
                  ELSE [NoReading EXCEPT
                           !.temperature = bme_call.temperature,
                           !.humidity = bme_call.humidity,
                           !.pressure = bme_call.pressure,
                           !.dew_point = calculate_dew_point(bme_call.temperature,
                                                             bme_call.humidity),
                           !.sea_level_pressure = bme_call'.term]
    /\ UNCHANGED <<wifi_vars, pm_vars, bme_ok, sleep_seconds, cycle,
                   consec_failed, compensated, classified, interrupted,
                   shutdown_ghosts>>

\* read_sensors, lines 136-155: the battery status, the record, the count.
StAnnotate ==
    /\ st = "annotate"
    /\ NewReading
    /\ \E v1 \in StationVoltages, v2 \in StationVoltages :
         LET r == get_battery_status(PM, v1, v2)
         IN  /\ SetPM(r.s)
             /\ pm_call' = [NoCall EXCEPT !.op = "get_battery_status",
                                          !.averaged = TRUE,
                                          !.voltage = r.ret.voltage,
                                          !.pvoltage = r.s.current_voltage,
                                          !.percentage = r.ret.percentage,
                                          !.state = r.ret.state]
             /\ pm_state' = r.ret.state
             /\ reading' = [reading EXCEPT
                               !.id = reading_count + 1,
                               !.battery_voltage = r.ret.voltage,
                               !.battery_percent = r.ret.percentage,
                               !.battery_state = r.ret.state,
                               !.error_count = error_count]
    /\ classified' = TRUE
    /\ consec_failed' = 0
    /\ st' = "transmit"
    /\ UNCHANGED <<config_vars, wlan_vars, is_connected, connection_attempts,
                   failed_transmissions, data_buffer, wm_call_vars, delivered,
                   evicted, adc_history, bme_vars, bme_ok, error_count,
                   sleep_seconds, cycle, compensated, burst_reads, interrupted,
                   shutdown_ghosts>>

\* run_once, line 262: transmit_data(data) with the record just built.
StTransmit ==
    /\ st = "transmit"
    /\ Enter("transmit_data", reading.id)
    /\ pc' = "sd_begin"
    /\ ret' = "None"
    /\ st' = "transmitting"
    /\ UNCHANGED <<config_vars, wlan_vars, is_connected, connection_attempts,
                   failed_transmissions, data_buffer, tbd_locals, ghost_vars,
                   pm_vars, bme_vars, bme_ok, error_count, sleep_seconds,
                   reading, cycle, consec_failed, cycle_ghosts, interrupted,
                   shutdown_ghosts>>

\* The WiFi manager runs on behalf of the station.
InManager == st \in {"transmitting", "draining"}
StManager(step) ==
    /\ InManager
    /\ step
    /\ UNCHANGED <<pm_vars, bme_vars, st_vars, aux_vars>>

\* transmit_data returned to run_once.
StTransmitted ==
    /\ st = "transmitting"
    /\ Resume
    /\ st' = "sleep_calc"
    /\ reading' = NoReading
    /\ UNCHANGED <<pm_vars, bme_vars, bme_ok, error_count, sleep_seconds,
                   cycle, consec_failed, cycle_ghosts, interrupted,
                   shutdown_ghosts>>

\* Faulty variant: a failed read starts the next cycle at once.
StNoData_no_sleep ==
    /\ st = "no_data"
    /\ error_count' = error_count + 1
    /\ consec_failed' = consec_failed + 1
    /\ st' = "read"
    /\ UNCHANGED <<wifi_vars, pm_vars, bme_vars, bme_ok, sleep_seconds, reading,
                   cycle, cycle_ghosts, interrupted, shutdown_ghosts>>

\* run_once, lines 266-268: read_sensors returned None.
StNoData ==
    /\ st = "no_data"
    /\ error_count' = error_count + 1
    /\ consec_failed' = consec_failed + 1
    /\ st' = "sleep_calc"
    /\ UNCHANGED <<wifi_vars, pm_vars, bme_vars, bme_ok, sleep_seconds, reading,
                   cycle, cycle_ghosts, interrupted, shutdown_ghosts>>

\* run_continuous, lines 286-288: the suggested sleep time, then the test of
\* error_count.
StSleepCalc ==
    /\ st = "sleep_calc"
    /\ \E v \in StationVoltages :
         LET r == get_suggested_sleep_time(PM, v)
         IN  /\ SetPM(r.s)
             /\ pm_call' = [NoCall EXCEPT !.op = "get_suggested_sleep_time",
                                          !.averaged = TRUE,
                                          !.voltage = r.voltage,
                                          !.pvoltage = r.voltage,
                                          !.percentage = r.percentage,
                                          !.sleep = r.ret]
             /\ sleep_seconds' = r.ret
    /\ st' = IF error_count >= MAX_SENSOR_READ_FAILURES THEN "reset" ELSE "sleep"
    /\ UNCHANGED <<wifi_vars, pm_state, adc_history, bme_vars, bme_ok,
                   error_count, reading, cycle, consec_failed, cycle_ghosts,
                   interrupted, shutdown_ghosts>>

\* Faulty variant: a successful reset leaves error_count as it was.
StReset_keeps_count ==
    /\ st = "reset"
    /\ \/ /\ bme_ok
          /\ consec_failed' = 0
          /\ UNCHANGED <<error_count, sleep_seconds>>
       \/ /\ sleep_seconds' = sleep_seconds * 2
          /\ UNCHANGED <<error_count, consec_failed>>
    /\ st' = "sleep"
    /\ UNCHANGED <<wifi_vars, pm_vars, bme_vars, bme_ok, reading, cycle,
                   cycle_ghosts, interrupted, shutdown_ghosts>>

\* run_continuous, lines 290-297: soft_reset succeeds and the count is
\* cleared, or it raises (no sensor object, or the bus fails) and the bare
\* except doubles the sleep time.
StReset ==
    /\ st = "reset"
    /\ \/ /\ bme_ok
          /\ error_count' = 0
          /\ consec_failed' = 0
          /\ UNCHANGED sleep_seconds
       \/ /\ sleep_seconds' = sleep_seconds * 2
          /\ UNCHANGED <<error_count, consec_failed>>
    /\ st' = "sleep"
    /\ UNCHANGED <<wifi_vars, pm_vars, bme_vars, bme_ok, reading, cycle,
                   cycle_ghosts, interrupted, shutdown_ghosts>>

\* Faulty variant: enter_sleep goes to sleep with the link as it is.
StSleep_no_disconnect ==
    /\ st = "sleep"
    /\ st' = "asleep"
    /\ UNCHANGED <<wifi_vars, pm_vars, bme_vars, bme_ok, error_count,
                   sleep_seconds, reading, cycle, consec_failed, cycle_ghosts,
                   interrupted, shutdown_ghosts>>

\* run_continuous, lines 300-301, and enter_sleep, lines 227-235:
\* config.USE_DEEP_SLEEP is True, so the loop calls enter_sleep, which
\* disconnects and then invokes lightsleep.
StSleep ==
    /\ st = "sleep"
    /\ Disconnected
    /\ st' = "asleep"
    /\ UNCHANGED <<wm_rest, pm_vars, bme_vars, bme_ok, error_count,
                   sleep_seconds, reading, cycle, consec_failed, cycle_ghosts,
                   interrupted, shutdown_ghosts>>

\* lightsleep returned; the loop starts over.  The records of the cycle's
\* calls are dropped.
StWake ==
    /\ st = "asleep"
    /\ st' = "read"
    /\ sleep_seconds' = 0
    /\ reading' = NoReading
    /\ pm_call' = NoCall
    /\ bme_call' = NoBmeCall
    /\ UNCHANGED <<wifi_vars, pm_fields, pm_state, adc_history, dig, t_fine,
                   bme_ok, error_count, cycle, consec_failed, cycle_ghosts,
                   interrupted, shutdown_ghosts>>

\* KeyboardInterrupt, raised once, anywhere in the loop.  Inside the try of
\* lines 290-297 the bare except takes it for a failed reset; anywhere else
\* it ends the call in progress and reaches the handler of line 306; the
\* locals of the loop and the records of the cycle are dropped.
LoopStates == {"read", "derive", "annotate", "transmit", "transmitting",
               "no_data", "sleep_calc", "reset", "sleep", "asleep"}
StInterrupt ==
    /\ st \in LoopStates
    /\ ~interrupted
    /\ interrupted' = TRUE
    /\ IF st = "reset"
       THEN /\ sleep_seconds' = sleep_seconds * 2
            /\ st' = "sleep"
            /\ UNCHANGED <<wm_call_vars, buf_at_shutdown, reading, pm_call,
                           bme_call, cycle_ghosts>>
       ELSE /\ st' = "shutdown"
            /\ buf_at_shutdown' = data_buffer
            /\ pc' = "idle"
            /\ op' = "none"
            /\ nested' = FALSE
            /\ data' = 0
            /\ success' = FALSE
            /\ transmitted_count' = 0
            /\ failed_entries' = <<>>
            /\ idx' = 0
            /\ ret' = "None"
            /\ tbd_ret' = -1
            /\ log' = <<>>
            /\ buf_at_call' = <<>>
            /\ sleep_seconds' = 0
            /\ reading' = NoReading
            /\ pm_call' = NoCall
            /\ bme_call' = NoBmeCall
            /\ compensated' = FALSE
            /\ classified' = FALSE
            /\ burst_reads' = 0
    /\ UNCHANGED <<config_vars, wlan_vars, is_connected, connection_attempts,
                   failed_transmissions, data_buffer, ghost_vars, pm_fields,
                   pm_state, adc_history, dig, t_fine, bme_ok, error_count,
                   cycle, consec_failed, drains>>

\* shutdown, lines 316-318: drain the buffer when there is one.
StShutdown ==
    /\ st = "shutdown"
    /\ IF data_buffer # <<>>
       THEN /\ Enter("transmit_buffered_data", 0)
            /\ pc' = "tbd_begin"
            /\ ret' = "None"
            /\ drains' = drains + 1
            /\ st' = "draining"
       ELSE /\ st' = "disconnect"
            /\ UNCHANGED <<op, data, log, buf_at_call, tbd_ret, success, nested,
                           pc, ret, drains>>
    /\ UNCHANGED <<config_vars, wlan_vars, is_connected, connection_attempts,
                   failed_transmissions, data_buffer, tbd_locals, ghost_vars,
                   pm_vars, bme_vars, bme_ok, error_count, sleep_seconds,
                   reading, cycle, consec_failed, cycle_ghosts, interrupted,
                   buf_at_shutdown>>

\* The drain returned to shutdown, or its exception left shutdown and
\* run_continuous and was caught by main().
StDrained ==
    /\ st = "draining"
    /\ Resume
    /\ st' = IF ret = "raised" THEN "fatal" ELSE "disconnect"
    /\ UNCHANGED <<pm_vars, bme_vars, bme_ok, error_count, sleep_seconds,
                   reading, cycle, consec_failed, cycle_ghosts, interrupted,
                   shutdown_ghosts>>

\* shutdown, line 322: disconnect; run_continuous and main return.
StDisconnect ==
    /\ st = "disconnect"
    /\ Disconnected
    /\ st' = "halted"
    /\ UNCHANGED <<wm_rest, pm_vars, bme_vars, bme_ok, error_count,
                   sleep_seconds, reading, cycle, consec_failed, cycle_ghosts,
                   interrupted, shutdown_ghosts>>

\* The station under config.py's settings, with or without a sensor.
InitStation ==
    /\ WmInit
    /\ USE_THINGSPEAK
    /\ ~USE_HTTP_POST
    /\ ~wlan_connected
    /\ PmInit
    /\ BmeInit
    /\ dig = CalA
    /\ StInit
    /\ bme_ok \in BOOLEAN
    /\ AuxInit

NextStation ==
    \/ StBoot /\ UNCHANGED aux_vars
    \/ StRead /\ UNCHANGED aux_vars
    \/ StDerive /\ UNCHANGED aux_vars
    \/ StAnnotate /\ UNCHANGED aux_vars
    \/ StTransmit /\ UNCHANGED aux_vars
    \/ StManager(SdBegin)
    \/ StManager(TbdBegin)
    \/ StManager(TbdIter)
    \/ StManager(TbdEnd)
    \/ StManager(SdSend)
    \/ StManager(SdBuffer)
    \/ StTransmitted /\ UNCHANGED aux_vars
    \/ StNoData /\ UNCHANGED aux_vars
    \/ StSleepCalc /\ UNCHANGED aux_vars
    \/ StReset /\ UNCHANGED aux_vars
    \/ StSleep /\ UNCHANGED aux_vars
    \/ StWake /\ UNCHANGED aux_vars
    \/ StInterrupt /\ UNCHANGED aux_vars
    \/ StShutdown /\ UNCHANGED aux_vars
    \/ StDrained /\ UNCHANGED aux_vars
    \/ StDisconnect /\ UNCHANGED aux_vars

SpecStation == InitStation /\ [][NextStation]_vars

\* ------------------------------------ connect(), one statement at a time
\* time.time() - start_time after n sleeps of half a second, the wait
\* having begun ph half-seconds into the clock's second.
elapsed(ph, n) == (ph + n) \div 2

\* One pass of the wait loop, lines 63-71: leave the loop, give up, or sleep.
wait_step(connected, el) ==
    IF connected THEN "up"
    ELSE IF el > WIFI_TIMEOUT THEN "timeout"
    ELSE "sleep"

\* connect(), lines 48-62: the early return when the interface is already
\* connected; otherwise wlan.connect, which raises OSError or starts the
\* join, and the start of the wait.
CnCall ==
    /\ Enter("connect", 0)
    /\ IF wlan_connected
       THEN /\ is_connected' = TRUE
            /\ pc' = "returned"
            /\ ret' = "True"
            /\ UNCHANGED conn_vars
       ELSE /\ connection_attempts < MaxAttempts
            /\ \/ /\ pc' = "returned"
                  /\ ret' = "raised"
                  /\ UNCHANGED conn_vars
               \/ /\ joining' \in (IF wlan_active THEN {TRUE} ELSE BOOLEAN)
                  /\ phase' \in {0, 1}
                  /\ waited' = 0
                  /\ pc' = "c_wait"
                  /\ ret' = "None"
            /\ UNCHANGED is_connected
    /\ UNCHANGED <<config_vars, wlan_vars, connection_attempts,
                   failed_transmissions, data_buffer, tbd_locals, ghost_vars>>

\* The wait loop, lines 63-83.
CnPoll ==
    /\ pc = "c_wait"
    /\ LET w == wait_step(wlan_connected, elapsed(phase, waited)) IN
       /\ is_connected' = IF w = "sleep" THEN is_connected ELSE w = "up"
       /\ connection_attempts' = IF w = "up" THEN 0
                                 ELSE IF w = "timeout" THEN connection_attempts + 1
                                 ELSE connection_attempts
       /\ waited' = IF w = "sleep" THEN waited + 1 ELSE waited
       /\ pc' = IF w = "sleep" THEN "c_wait" ELSE "returned"
       /\ ret' = IF w = "up" THEN "True" ELSE IF w = "timeout" THEN "False" ELSE ret
    /\ UNCHANGED <<config_vars, wlan_vars, failed_transmissions, data_buffer,
                   op, nested, data, success, tbd_locals, tbd_ret, ghost_vars,
                   log, buf_at_call, joining, phase>>

\* The radio completes the join it was asked for; nothing in connect()
\* cancels the join when the wait gives up.
LinkUp ==
    /\ joining
    /\ ~wlan_connected
    /\ wlan_connected' = TRUE
    /\ joining' = FALSE
    /\ UNCHANGED <<config_vars, wlan_active, is_connected, connection_attempts,
                   failed_transmissions, data_buffer, wm_call_vars, ghost_vars,
                   phase, waited>>

\* disconnect(): the interface is switched off, which ends a join.
CnDisconnect ==
    /\ CallDisconnect
    /\ joining' = FALSE
    /\ UNCHANGED <<phase, waited>>

\* The caller has seen the result.
CnResume ==
    /\ Resume
    /\ phase' = 0
    /\ waited' = 0
    /\ UNCHANGED joining

InitConnect ==
    /\ Init
    /\ USE_THINGSPEAK
    /\ ~USE_HTTP_POST

NextConnect ==
    \/ CnCall /\ UNCHANGED <<pm_vars, bme_vars, st_vars, i2c_writes>>
    \/ CnPoll /\ UNCHANGED <<pm_vars, bme_vars, st_vars, i2c_writes>>
    \/ LinkUp /\ UNCHANGED <<pm_vars, bme_vars, st_vars, i2c_writes>>
    \/ LinkLost /\ UNCHANGED <<pm_vars, bme_vars, st_vars, aux_vars>>
    \/ CnDisconnect /\ UNCHANGED <<pm_vars, bme_vars, st_vars, i2c_writes>>
    \/ CnResume /\ UNCHANGED <<pm_vars, bme_vars, st_vars, i2c_writes>>

SpecConnect == InitConnect /\ [][NextConnect]_vars

\* The same, with the task running whenever it can: time.sleep returns.
SpecConnectFair ==
    SpecConnect /\ WF_vars(CnPoll /\ UNCHANGED <<pm_vars, bme_vars, st_vars, i2c_writes>>)

\* ------------------------------- the station on a sensor and bus that respond
\* Cycles it takes a station whose reads fail to reach the failure
\* threshold, attempt the reset and read once more.
RecoveryCycles == MAX_SENSOR_READ_FAILURES + 2

\* read_sensors up to line 124 when every bus read is answered: without a
\* sensor object it returns None at line 120; with one it gets a frame.
\* The run is followed up to its second reading.
RcRead ==
    /\ st = "read"
    /\ cycle < RecoveryCycles
    /\ reading_count < 2
    /\ cycle' = cycle + 1
    /\ classified' = FALSE
    /\ IF ~bme_ok
       THEN /\ st' = "no_data"
            /\ compensated' = FALSE
            /\ burst_reads' = 0
            /\ UNCHANGED bme_vars
       ELSE /\ ReadCompensatedData(StationFrames)
            /\ ~bme_call'.raised
            /\ compensated' = TRUE
            /\ burst_reads' = 1
            /\ st' = "derive"
    /\ UNCHANGED <<wifi_vars, pm_vars, bme_ok, error_count, sleep_seconds,
                   reading, consec_failed, interrupted, shutdown_ghosts>>

\* read_sensors, lines 126-133, when the second burst read is answered.
RcDerive ==
    /\ StDerive
    /\ ~bme_call'.raised

\* run_continuous, lines 290-297, when the bus answers: soft_reset raises
\* only for want of a sensor object.
RcReset ==
    /\ StReset
    /\ bme_ok => error_count' = 0

InitRecovery == InitStation

NextRecovery ==
    \/ StBoot /\ UNCHANGED aux_vars
    \/ RcRead /\ UNCHANGED aux_vars
    \/ RcDerive /\ UNCHANGED aux_vars
    \/ StAnnotate /\ UNCHANGED aux_vars
    \/ StTransmit /\ UNCHANGED aux_vars
    \/ StManager(SdBegin)
    \/ StManager(TbdBegin)
    \/ StManager(TbdIter)
    \/ StManager(TbdEnd)
    \/ StManager(SdSend)
    \/ StManager(SdBuffer)
    \/ StTransmitted /\ UNCHANGED aux_vars
    \/ StNoData /\ UNCHANGED aux_vars
    \/ StSleepCalc /\ UNCHANGED aux_vars
    \/ RcReset /\ UNCHANGED aux_vars
    \/ StSleep /\ UNCHANGED aux_vars
    \/ StWake /\ UNCHANGED aux_vars

SpecRecovery == InitRecovery /\ [][NextRecovery]_vars

\* ------------------------------------------- the burst read, byte by byte
\* Raw values the simulator's packing is applied to: the ends of the 20-bit
\* and 16-bit ranges, the nibble and byte boundaries, and values within the
\* simulator's own ranges (519888 +/- 1000, 329728 +/- 500, 28672 +/- 500).
RawSamples20 == {0, 1, 15, 16, 4095, 4096, 329228, 329728, 520888, 1048575}
RawSamples16 == {0, 255, 256, 28172, 29172, 65535}
\* Bytes a device other than the simulator can answer with.
ArbitraryFrames == Frames \cup {<<0, 0, 0, 0, 0, 0, 0, 0>>,
                                <<255, 255, 255, 255, 255, 255, 255, 255>>,
                                <<1, 2, 3, 4, 5, 6, 7, 8>>,
                                <<0, 0, 15, 0, 0, 15, 0, 1>>}

\* _read_raw_data, line 159, answered by SimulatedI2C.readfrom_mem.
SimBurst ==
    /\ bme_call.op # "readfrom_mem"
    /\ \E p \in RawSamples20, t \in RawSamples20, h \in RawSamples16 :
         bme_call' = [NoBmeCall EXCEPT !.op = "readfrom_mem",
                                       !.args = <<p, t, h>>,
                                       !.frames = <<pack_burst(p, t, h)>>]
    /\ UNCHANGED <<dig, t_fine, i2c_writes>>

\* _read_raw_data, line 159, answered by some other device.
BusBurst ==
    /\ bme_call.op # "readfrom_mem"
    /\ \E f \in ArbitraryFrames :
         bme_call' = [NoBmeCall EXCEPT !.op = "readfrom_mem",
                                       !.frames = <<f>>]
    /\ UNCHANGED <<dig, t_fine, i2c_writes>>

\* _read_raw_data, lines 161-165: the assembly and the returned triple
\* (temp_raw, press_raw, hum_raw).
ReadRawData ==
    /\ bme_call.op = "readfrom_mem"
    /\ LET r == read_raw_data(bme_call.frames[1])
       IN  bme_call' = [bme_call EXCEPT !.op = "_read_raw_data",
                                        !.raw = <<r.temp, r.press, r.hum>>]
    /\ UNCHANGED <<dig, t_fine, i2c_writes>>

InitRaw == InitSensor

NextRaw ==
    \/ SimBurst /\ UNCHANGED <<wifi_vars, pm_vars, st_vars, conn_vars>>
    \/ BusBurst /\ UNCHANGED <<wifi_vars, pm_vars, st_vars, conn_vars>>
    \/ ReadRawData /\ UNCHANGED <<wifi_vars, pm_vars, st_vars, conn_vars>>

SpecRaw == InitRaw /\ [][NextRaw]_vars

\* ================================================================ claims
\* Shorthands over the call in progress.
SendOp == op \in {"send_data", "transmit_data"} /\ data # 0

\* A transmit_buffered_data call has just returned a count: to send_data
\* (nothing of the current reading is logged yet) or to the client.
DrainDone ==
    /\ tbd_ret >= 0
    /\ \/ pc = "sd_send"
       \/ pc = "returned" /\ op = "transmit_buffered_data"

LogData(l) == [i \in 1..Len(l) |-> l[i].data]
DataOf(buf) == [i \in 1..Len(buf) |-> buf[i].data]
Succeeded == {log[i].data : i \in {j \in 1..Len(log) : log[j].res = "True"}}
Failed == {log[i].data : i \in {j \in 1..Len(log) : log[j].res = "False"}}
NotSucceeded(e) == e.data \notin Succeeded
Last(q) == q[Len(q)]

\* C1: the number of entries in data_buffer never exceeds DATA_BUFFER_SIZE.
C1_BufferWithinCapacity == Len(data_buffer) <= DATA_BUFFER_SIZE

\* C1 witness: the buffer is full and an entry has been evicted from it.
C1_Witness == Len(data_buffer) = DATA_BUFFER_SIZE /\ evicted # {}

\* A step in which buffer_data runs: send_data's call of it, or a direct call.
BufferDataStep ==
    \/ pc = "sd_buffer" /\ pc' = "returned"
    \/ pc = "idle" /\ op' = "buffer_data"

\* C2: buffering into a full buffer leaves it full: the oldest entry (index 0)
\* is gone, the other earlier entries keep their order, and the reading just
\* buffered is the last entry.
C2_EvictsOldestOnly ==
    [][(BufferDataStep /\ Len(data_buffer) = DATA_BUFFER_SIZE) =>
          /\ Len(data_buffer') = DATA_BUFFER_SIZE
          /\ SubSeq(data_buffer', 1, DATA_BUFFER_SIZE - 1) = Tail(data_buffer)
          /\ data_buffer'[DATA_BUFFER_SIZE].data = data'
          /\ data_buffer[1].data \notin BufData(data_buffer')]_vars

\* C2 witness: buffer_data has returned from a call made on a full buffer.
C2_Witness ==
    /\ pc = "returned"
    /\ op \in {"buffer_data", "send_data", "transmit_data"}
    /\ data # 0
    /\ Len(buf_at_call) = DATA_BUFFER_SIZE
    /\ Len(data_buffer) = DATA_BUFFER_SIZE
    /\ Last(data_buffer).data = data
    /\ buf_at_call[1].data \in evicted

\* C3: whenever send_data / transmit_data returns False for a reading, that
\* reading is the newest entry of the buffer when the call returns.
C3_FailureAlwaysBuffers ==
    (pc = "returned" /\ SendOp /\ ret = "False") =>
        (data_buffer # <<>> /\ Last(data_buffer).data = data)

\* C4: when send_data has transmitted the current reading it returns True,
\* the reading is not in the buffer, and the buffer holds only entries that
\* were buffered before the call, in their order.
C4_SuccessNeverBuffers ==
    (pc = "returned" /\ SendOp /\ log # <<>>
        /\ Last(log).data = data /\ Last(log).res = "True") =>
        /\ ret = "True"
        /\ data \notin BufData(data_buffer)
        /\ data_buffer = SelectSeq(buf_at_call, NotSucceeded)

\* C4 witness: send_data returned True on a call that found entries buffered
\* and left some of them.
C4_Witness ==
    /\ pc = "returned" /\ SendOp /\ ret = "True"
    /\ data \in delivered
    /\ buf_at_call # <<>>
    /\ data_buffer # <<>>

\* C5: after a drain the buffer holds exactly the entries of the buffer whose
\* transmission did not succeed during the drain, in their original order,
\* each once; when the loop ran these are the entries whose send failed.
C5_DrainKeepsExactlyFailed ==
    DrainDone =>
        /\ data_buffer = SelectSeq(buf_at_call, NotSucceeded)
        /\ \A i, j \in 1..Len(data_buffer) : i # j => data_buffer[i] # data_buffer[j]
        /\ BufData(data_buffer) \cap Succeeded = {}
        /\ log # <<>> => BufData(data_buffer) = Failed

\* C5 witness: a drain over three entries in which the middle one was sent
\* and the other two failed.
C5_Witness ==
    /\ DrainDone
    /\ Len(buf_at_call) = 3
    /\ Len(log) = 3
    /\ log[1].res = "False" /\ log[2].res = "True" /\ log[3].res = "False"
    /\ Len(data_buffer) = 2

\* C6: in a send_data call made with a non-empty buffer, by the time the
\* request for the current reading is issued every buffered entry has been
\* attempted, oldest first.
C6_DrainBeforeCurrent ==
    (SendOp /\ buf_at_call # <<>> /\ log # <<>>
        /\ Last(log).data = data /\ Last(log).req) =>
        SubSeq(LogData(log), 1, Len(log) - 1) = DataOf(buf_at_call)

\* C7: at every point between calls, each reading handed to the transmit step
\* has been transmitted, is in the buffer, or was evicted from a full buffer.
C7_NoReadingLost ==
    (pc \in {"idle", "returned"}) =>
        \A r \in 1..reading_count :
            r \in delivered \cup BufData(data_buffer) \cup evicted

\* C8: round trip: a drain of three buffered readings in which the connection
\* and every send succeed leaves the buffer empty, and the sender is called
\* exactly three times, on the three readings in insertion order.
C8_RoundTrip ==
    (DrainDone /\ Len(buf_at_call) = 3 /\ is_connected
        /\ \A i \in 1..Len(log) : log[i].res = "True") =>
        /\ data_buffer = <<>>
        /\ Len(log) = 3
        /\ LogData(log) = DataOf(buf_at_call)
        /\ \A i \in 1..3 : log[i].req
        /\ tbd_ret = 3

\* C8 witness: the first three readings failed, nothing else happened to
\* them, and a drain has just sent all three.
C8_Witness ==
    /\ DrainDone
    /\ buf_at_call = <<Entry(1), Entry(2), Entry(3)>>
    /\ LogData(log) = <<1, 2, 3>>
    /\ delivered = {1, 2, 3}
    /\ evicted = {}
    /\ data_buffer = <<>>

\* A step in which a configured sender is called and returns.
SenderReturns ==
    /\ Len(log') = Len(log) + 1
    /\ USE_THINGSPEAK \/ USE_HTTP_POST
    /\ Last(log').res # "raised"

\* C9: every sender call that returns False increments failed_transmissions
\* by one, every successful one sets it to zero.
C9_CounterCountsEveryFailure ==
    [][SenderReturns =>
          IF Last(log').res = "True"
          THEN failed_transmissions' = 0
          ELSE failed_transmissions' = failed_transmissions + 1]_vars

C10_NoConnection == DrainDone /\ buf_at_call # <<>> /\ ~is_connected /\ tbd_ret = 0


\* ---------------------------------------------------------------- battery
\* The calls that return a percentage computed from pm_call.pvoltage.
PercentageOps == {"get_battery_percentage", "get_battery_status",
                  "get_suggested_sleep_time"}

\* C11: the suggested sleep time is 4 x the base interval when the battery
\* state is CRITICAL, 2 x when it is LOW, and the base interval when it is
\* NORMAL or FULL: 1200, 600 and 300 s for the base of 300 s.  The battery
\* state is the one get_battery_status last returned.
C11_SleepTimeByState ==
    pm_call.op = "get_suggested_sleep_time" =>
        /\ pm_state = "CRITICAL" =>
               pm_call.sleep = 4 * SENSOR_READ_INTERVAL /\ pm_call.sleep = 1200
        /\ pm_state = "LOW" =>
               pm_call.sleep = 2 * SENSOR_READ_INTERVAL /\ pm_call.sleep = 600
        /\ pm_state \in {"NORMAL", "FULL"} =>
               pm_call.sleep = SENSOR_READ_INTERVAL /\ pm_call.sleep = 300

\* A sleep time of 1200 s suggested for a battery classified CRITICAL.
C11_Witness ==
    /\ pm_call.op = "get_suggested_sleep_time"
    /\ pm_state = "CRITICAL"
    /\ pm_call.sleep = 1200

\* C13: get_battery_status classifies the averaged voltage v in a fixed
\* order: v <= critical is CRITICAL; otherwise v <= low is LOW; otherwise
\* v >= 0.95 * full is FULL; otherwise NORMAL.  A v equal to the critical
\* voltage is CRITICAL and a v equal to 0.95 * full is FULL.
C13_ClassificationOrder ==
    pm_call.op = "get_battery_status" =>
        LET v == pm_call.voltage
            atMostCritical == v.n <= BATTERY_CRITICAL_VOLTAGE * v.d
            atMostLow == v.n <= BATTERY_LOW_VOLTAGE * v.d
            nearFull == 100 * v.n >= 95 * BATTERY_FULL_VOLTAGE * v.d
        IN  /\ atMostCritical => pm_call.state = "CRITICAL"
            /\ ~atMostCritical /\ atMostLow => pm_call.state = "LOW"
            /\ ~atMostLow /\ nearFull => pm_call.state = "FULL"
            /\ ~atMostLow /\ ~nearFull => pm_call.state = "NORMAL"
            /\ v.n = BATTERY_CRITICAL_VOLTAGE * v.d => pm_call.state = "CRITICAL"
            /\ 100 * v.n = 95 * BATTERY_FULL_VOLTAGE * v.d => pm_call.state = "FULL"

\* A mean of exactly 0.95 * full (3.99 V), classified FULL.
C13_Witness ==
    /\ pm_call.op = "get_battery_status"
    /\ pm_call.voltage = [n |-> 399, d |-> 1]
    /\ pm_call.state = "FULL"

\* C14: the battery percentage is within [0, 100] and monotone
\* non-decreasing in the voltage: 0 for v <= critical, 100 for v >= full,
\* and 100 * (v - critical) / (full - critical) in between.
C14_PercentageMonotoneClamped ==
    [][pm_call'.op \in PercentageOps =>
        LET v == pm_call'.pvoltage
            p == pm_call'.percentage
            range == BATTERY_FULL_VOLTAGE - BATTERY_CRITICAL_VOLTAGE
        IN  /\ p.n >= 0 /\ p.n <= 100 * p.d
            /\ v.n <= BATTERY_CRITICAL_VOLTAGE * v.d => p = [n |-> 0, d |-> 1]
            /\ v.n >= BATTERY_FULL_VOLTAGE * v.d => p = [n |-> 100, d |-> 1]
            /\ /\ v.n > BATTERY_CRITICAL_VOLTAGE * v.d
               /\ v.n < BATTERY_FULL_VOLTAGE * v.d
               => p.n * range * v.d = 100 * (v.n - BATTERY_CRITICAL_VOLTAGE * v.d) * p.d
            /\ /\ pm_call.op \in PercentageOps
               /\ pm_call.pvoltage.n * v.d <= v.n * pm_call.pvoltage.d
               => pm_call.percentage.n * p.d <= p.n * pm_call.percentage.d
      ]_vars

\* A percentage strictly between 0 and 100 returned after a lower one.
C14_Witness ==
    /\ pm_call.op = "get_battery_percentage"
    /\ pm_call.percentage.n > 0
    /\ pm_call.percentage.n < 100 * pm_call.percentage.d
    /\ Len(adc_history) >= 2
    /\ adc_history[1] < adc_history[2]

\* The last k elements of q (all of q when it is shorter).
LastK(q, k) == SubSeq(q, IF Len(q) > k THEN Len(q) - k + 1 ELSE 1, Len(q))
IsMeanOf(v, q) == q # <<>> /\ v.n * Len(q) = Sum(q) * v.d

\* C15: the smoothing window is a bounded FIFO: it holds at most
\* max_samples samples, they are the most recent ones in arrival order, it
\* is not empty when the mean is computed, and the value returned is the
\* mean of exactly the window's samples.
C15_WindowBoundedFifo ==
    /\ Len(voltage_samples) <= max_samples
    /\ voltage_samples = LastK(adc_history, max_samples)
    /\ pm_call.averaged =>
        /\ voltage_samples # <<>>
        /\ IsMeanOf(current_voltage, voltage_samples)
        /\ pm_call.op # "get_battery_status" =>
               IsMeanOf(pm_call.voltage, voltage_samples)
        /\ pm_call.op = "get_battery_status" =>
               IsMeanOf(pm_call.voltage,
                        LastK(SubSeq(adc_history, 1, Len(adc_history) - 1),
                              max_samples))

\* A mean returned over a full window after the oldest sample was dropped.
C15_Witness ==
    /\ pm_call.op = "read_battery_voltage"
    /\ pm_call.averaged
    /\ Len(adc_history) > max_samples
    /\ adc_history[1] # adc_history[Len(adc_history)]
    /\ Len(voltage_samples) = max_samples

\* ----------------------------------------------------------------- sensor
\* C17: in every read_compensated_data call the pressure and the humidity
\* are compensated with the t_fine computed from that same call's raw
\* temperature: the result is a function of the raw sample and the
\* calibration, whatever t_fine an earlier call left.
C17_SameCallTFine ==
    bme_call.op = "read_compensated_data" /\ ~bme_call.raised =>
        LET raw == read_raw_data(bme_call.frames[1])
            t == compensate_temperature(dig, raw.temp)
        IN  /\ t_fine = t.t_fine
            /\ bme_call.temperature = t.ret
            /\ bme_call.pressure = compensate_pressure(dig, t.t_fine, raw.press)
            /\ bme_call.humidity = compensate_humidity(dig, t.t_fine, raw.hum)

\* A read made while t_fine held the value of an earlier, different sample,
\* with which the pressure and the humidity would have come out different.
C17_Witness ==
    /\ bme_call.op = "read_compensated_data"
    /\ ~bme_call.raised
    /\ bme_call.t_fine_before # 0
    /\ bme_call.t_fine_before # t_fine
    /\ LET raw == read_raw_data(bme_call.frames[1])
       IN  /\ compensate_pressure(dig, bme_call.t_fine_before, raw.press)
                # bme_call.pressure
           /\ compensate_humidity(dig, bme_call.t_fine_before, raw.hum)
                # bme_call.humidity

DerivedOps == {"calculate_dew_point", "calculate_altitude",
               "calculate_sea_level_pressure"}

\* C18: the derived-value functions (altitude, sea-level pressure, dew
\* point) consume compensated values only: they read nothing from the bus
\* and leave t_fine as it was, so that the sea-level pressure derives from
\* the pressure sample the caller holds.
C18_DerivedValuesPure ==
    bme_call.op \in DerivedOps =>
        /\ bme_call.frames = <<>>
        /\ ~bme_call.raised
        /\ t_fine = bme_call.t_fine_before
        /\ bme_call.term.fn = "sea_level" =>
               bme_call.term.pressure = bme_call.pressure

\* ---------------------------------------------------------------- station
\* The multiplier of the base interval for a battery whose mean voltage is v.
FreshFactor(v) ==
    IF v.n <= BATTERY_CRITICAL_VOLTAGE * v.d THEN 4
    ELSE IF v.n <= BATTERY_LOW_VOLTAGE * v.d THEN 2
    ELSE 1

\* C12: in every cycle, those whose sensor read failed included, the sleep
\* duration is computed from a battery state classified in that same cycle
\* from the latest averaged voltage, never from a classification (or the
\* initial flags) left over from an earlier cycle.
C12_SleepFromFreshState ==
    pm_call.op = "get_suggested_sleep_time" /\ st \in {"reset", "sleep"} =>
        /\ classified
        /\ pm_call.sleep = SENSOR_READ_INTERVAL * FreshFactor(current_voltage)

\* C16: in every cycle in which the sensor read-and-compensate step
\* succeeds, the battery read is performed in that same cycle, before the
\* transmit and the sleep steps, whatever failed in earlier cycles.
C16_BatteryReadAfterCompensate ==
    /\ st \in {"transmit", "transmitting"} => classified
    /\ st \in {"sleep_calc", "reset", "sleep"} /\ compensated => classified

\* C19: a soft reset of the sensor is attempted only once the number of
\* consecutive failed sensor reads has reached MAX_SENSOR_READ_FAILURES:
\* a failed read counts once, and a successful read starts the count over.
C19_ResetAfterConsecutiveFailures ==
    /\ st = "reset" => consec_failed >= MAX_SENSOR_READ_FAILURES
    /\ st \in {"sleep_calc", "reset", "sleep"} => error_count = consec_failed

ShutdownStates == {"shutdown", "draining", "disconnect", "halted"}

\* C20: on an external interrupt the orchestrator enters SHUTDOWN, which
\* drains the buffer exactly once when it is not empty (not at all when it
\* is), then disconnects WiFi and halts; once shutdown has begun there is no
\* further sensor read, transmission of a new reading or sleep.
C20_ShutdownDrainsOnceAndHalts ==
    [][/\ ~interrupted /\ interrupted' => st' = "shutdown" /\ drains' = 0
       /\ st \in ShutdownStates =>
            /\ st' \in ShutdownStates
            /\ cycle' = cycle
            /\ reading_count' = reading_count
            /\ burst_reads' = burst_reads
            /\ op' # "transmit_data"
       /\ st' = "halted" =>
            /\ drains' = IF buf_at_shutdown' # <<>> THEN 1 ELSE 0
            /\ ~wlan_active'
            /\ ~wlan_connected'
            /\ ~is_connected'
      ]_vars

\* C21: an external interrupt is acted on only between cycles: shutdown
\* begins only at the start of a cycle or at the sleep step, never while a
\* read, a transmission of the current reading or a buffer drain is in
\* progress.
C21_InterruptOnlyBetweenCycles ==
    [][(st # "shutdown" /\ st' = "shutdown") =>
          st \in {"read", "sleep", "asleep"}]_vars

\* C22: connect() terminates while the clock advances: the wait does not
\* sleep again once the elapsed time exceeds the timeout; it returns True
\* whenever the interface reports connected, with is_connected True and
\* connection_attempts 0; it returns False only after the timeout, with
\* is_connected False and connection_attempts one higher.
C22_ConnectBoundedWait ==
    [][/\ (pc = "c_wait" /\ waited' # waited)
             => (waited' = waited + 1 /\ elapsed(phase, waited) <= WIFI_TIMEOUT)
       /\ (op' = "connect" /\ pc # "returned" /\ pc' = "returned") =>
             /\ wlan_connected => ret' = "True"
             /\ ret' = "True" => /\ wlan_connected
                                 /\ is_connected'
                                 /\ connection_attempts' = 0
             /\ ret' = "False" => /\ elapsed(phase, waited) > WIFI_TIMEOUT
                                  /\ ~is_connected'
                                  /\ connection_attempts' = connection_attempts + 1
      ]_vars

\* The part of C22 the wait loop does keep: a wait in progress returns.
ConnectWaitReturns == (pc = "c_wait") ~> (pc = "returned")

\* The part of C22 the wait loop does keep: its own returns are as stated.
ConnectWaitEffects ==
    [][/\ (pc = "c_wait" /\ waited' # waited)
             => (waited' = waited + 1 /\ elapsed(phase, waited) <= WIFI_TIMEOUT)
       /\ (pc = "c_wait" /\ pc' = "returned") =>
             /\ wlan_connected => ret' = "True"
             /\ ret' = "True" => /\ wlan_connected
                                 /\ is_connected'
                                 /\ connection_attempts' = 0
             /\ ret' = "False" => /\ elapsed(phase, waited) > WIFI_TIMEOUT
                                  /\ ~is_connected'
                                  /\ connection_attempts' = connection_attempts + 1
      ]_vars

\* C23: one task runs each cycle to completion: a read starts only at
\* start-up or right after the sleep of the previous cycle, and the sleep is
\* followed by nothing but the next read; the transmission is attempted only
\* with the reading this cycle's read produced, after the read and before
\* the sleep step; the sleep step begins only when the transmission has
\* returned or the read has failed; the WiFi manager runs only inside the
\* transmit step (or the shutdown drain).
C23_CycleOrder ==
    [][/\ (st # "read" /\ st' = "read") => st \in {"boot", "asleep"}
       /\ (st = "sleep" /\ st' # "sleep") => st' \in {"asleep", "shutdown"}
       /\ (st = "asleep" /\ st' # "asleep") => st' \in {"read", "shutdown"}
       /\ (st' = "transmitting" /\ st # "transmitting") =>
             /\ st = "transmit"
             /\ compensated /\ classified
             /\ data' = reading.id /\ reading.id = reading_count
       /\ (st' = "sleep_calc" /\ st # "sleep_calc") =>
             \/ st = "transmitting" /\ pc = "returned" /\ compensated
             \/ st = "no_data" /\ reading.id = 0
       /\ (st' = "sleep" /\ st # "sleep") => st \in {"sleep_calc", "reset"}
       /\ (st' = "reset") => st \in {"sleep_calc", "reset"}
       /\ (pc' # "idle") => st' \in {"transmitting", "draining"}
       /\ cycle' # cycle => (cycle' = cycle + 1 /\ st = "read")
      ]_vars

\* A failed cycle slept, and the next cycle's read produced a reading that
\* is being transmitted.
C23_Witness ==
    /\ cycle = 2
    /\ error_count > 0
    /\ st = "transmitting"
    /\ pc = "returned"

\* Position of the first write to register r in the last configuring call
\* (0: not written).
FirstWrite(r) ==
    IF \E i \in DOMAIN i2c_writes : i2c_writes[i].reg = r
    THEN CHOOSE i \in DOMAIN i2c_writes :
            /\ i2c_writes[i].reg = r
            /\ \A j \in 1..(i - 1) : i2c_writes[j].reg # r
    ELSE 0

\* C24: on every sensor configuration (set_mode, the constructor's
\* included) the humidity oversampling register 0xF2 is written before the
\* combined register 0xF4, and the config register 0xF5 after both.
C24_HumidityRegisterFirst ==
    /\ \A i \in DOMAIN i2c_writes :
          /\ i2c_writes[i].reg = REG_CONTROL =>
                \E h \in 1..(i - 1) : i2c_writes[h].reg = REG_CONTROL_HUM
          /\ i2c_writes[i].reg = REG_CONFIG =>
                /\ \E h \in 1..(i - 1) : i2c_writes[h].reg = REG_CONTROL_HUM
                /\ \E c \in 1..(i - 1) : i2c_writes[c].reg = REG_CONTROL
    /\ (bme_call.op \in {"set_mode", "__init__"} /\ ~bme_call.raised) =>
          /\ FirstWrite(REG_CONTROL_HUM) = 1
          /\ FirstWrite(REG_CONTROL) = 2
          /\ FirstWrite(REG_CONFIG) = 3

\* A set_mode call other than the constructor's made all three writes.
C24_Witness ==
    /\ bme_call.op = "set_mode"
    /\ ~bme_call.raised
    /\ Len(i2c_writes) = 3
    /\ i2c_writes[2] = Write(REG_CONTROL, 5 * 32 + 1 * 4 + 0)

\* C28: the calibration coefficients are written only by the constructor
\* and by soft_reset: the burst read, the compensation, the derived values
\* and set_mode leave every coefficient as it was.
C28_CalibrationReadOnly ==
    [][/\ dig' # dig => bme_call'.op \in {"__init__", "soft_reset"}
       /\ (bme_call' # bme_call /\ bme_call'.op \in
              {"read_compensated_data", "calculate_dew_point",
               "calculate_altitude", "calculate_sea_level_pressure",
               "set_mode"}) => dig' = dig
      ]_vars

\* After a soft reset loaded the coefficients, a read was made on them.
C28_Witness ==
    /\ bme_call.op = "read_compensated_data"
    /\ ~bme_call.raised
    /\ Len(i2c_writes) = 1
    /\ i2c_writes[1].reg = REG_SOFTRESET
    /\ dig = CalB

\* C25: the pressure compensation returns exactly 0, without dividing,
\* whenever the term var1 it would divide by is 0; with dig_P1 = 0 this is
\* so for every raw pressure and every t_fine.
C25_PressureZeroSentinel ==
    (bme_call.op = "read_compensated_data" /\ ~bme_call.raised) =>
        /\ pressure_var1(dig, t_fine).n = 0 => bme_call.pressure = Num(0)
        /\ dig.P1 = 0 => pressure_var1(dig, t_fine).n = 0
        /\ bme_call.pressure # ZeroDivision

\* A read on a sensor whose dig_P1 is 0.
C25_Witness ==
    /\ bme_call.op = "read_compensated_data"
    /\ ~bme_call.raised
    /\ dig.P1 = 0
    /\ t_fine # 0
    /\ bme_call.pressure = Num(0)

\* The value the humidity polynomial gave in the last read, before the clamp.
LastHumidityPolynomial ==
    humidity_polynomial(dig, t_fine, read_raw_data(bme_call.frames[1]).hum)

\* C26: the compensated humidity is clamped: 0 <= humidity <= 100 for every
\* raw input and calibration; a value of the polynomial within the range is
\* returned as it is.
C26_HumidityClamped ==
    (bme_call.op = "read_compensated_data" /\ ~bme_call.raised) =>
        /\ RGe(bme_call.humidity, Num(0))
        /\ RLe(bme_call.humidity, Num(100))
        /\ (RGe(LastHumidityPolynomial, Num(0)) /\ RLe(LastHumidityPolynomial, Num(100)))
              => bme_call.humidity = LastHumidityPolynomial

\* A read whose polynomial value was above 100 and was clamped.
C26_Witness ==
    /\ bme_call.op = "read_compensated_data"
    /\ ~bme_call.raised
    /\ RGt(LastHumidityPolynomial, Num(100))
    /\ bme_call.humidity = Num(100)

\* A read whose polynomial value was below 0 and was clamped.
C26_WitnessLow ==
    /\ bme_call.op = "read_compensated_data"
    /\ ~bme_call.raised
    /\ RLt(LastHumidityPolynomial, Num(0))
    /\ bme_call.humidity = Num(0)

\* C27: the dew point of 25.0 degrees C and 60.0 % relative humidity is
\* about 16.7 degrees C: a value within [16.5, 16.9].
C27_DewPointScenario ==
    (bme_call.op = "calculate_dew_point" /\ bme_call.args = <<Num(25), Num(60)>>) =>
        /\ RGe(bme_call.value, Rat(165, 10))
        /\ RLe(bme_call.value, Rat(169, 10))

\* What the code returns for that input lies between 35.4 and 35.5.
DewPointScenarioValue ==
    (bme_call.op = "calculate_dew_point" /\ bme_call.args = <<Num(25), Num(60)>>) =>
        /\ RGt(bme_call.value, Rat(354, 10))
        /\ RLt(bme_call.value, Rat(355, 10))

\* C29: no unrecoverable state: with the sensor and the bus responding, a
\* cycle that produces a reading is reached, also after a failed sensor
\* initialization and after the failure threshold was reached.  On a finite
\* run: by the time the station has reached the threshold, attempted the
\* reset and read once more, it has produced a reading.
C29_NoUnrecoverableState ==
    (cycle = RecoveryCycles /\ st = "sleep") => reading_count > 0

\* With a sensor object the first cycle on a responding bus has a reading.
RecoversWithSensor ==
    (bme_ok /\ cycle >= 1 /\ st = "sleep") => reading_count > 0

\* Without one the reset was attempted and the sleep time doubled.
ResetAttemptedWithoutSensor ==
    (~bme_ok /\ st = "sleep" /\ error_count >= MAX_SENSOR_READ_FAILURES)
        => sleep_seconds \in {2 * SENSOR_READ_INTERVAL, 4 * SENSOR_READ_INTERVAL,
                              8 * SENSOR_READ_INTERVAL}

\* C30: at the end of a cycle a soft reset is attempted exactly when
\* error_count >= MAX_SENSOR_READ_FAILURES; a reset that succeeds clears
\* error_count and leaves the cycle's sleep time alone, a reset that raises
\* leaves error_count and doubles the sleep time; so every cycle sleeps 1,
\* 2, 4 or 8 times the base interval.
C30_ResetAtThreshold ==
    [][/\ (st = "sleep_calc" /\ st' = "reset")
             => error_count >= MAX_SENSOR_READ_FAILURES
       /\ (st = "sleep_calc" /\ st' = "sleep")
             => error_count < MAX_SENSOR_READ_FAILURES
       /\ (st # "reset" /\ st' = "reset") => st = "sleep_calc"
       /\ (st = "reset" /\ st' = "sleep") =>
             \/ error_count' = 0 /\ sleep_seconds' = sleep_seconds
             \/ error_count' = error_count /\ sleep_seconds' = 2 * sleep_seconds
       /\ (st' = "sleep") =>
             sleep_seconds' \in {SENSOR_READ_INTERVAL, 2 * SENSOR_READ_INTERVAL,
                                 4 * SENSOR_READ_INTERVAL, 8 * SENSOR_READ_INTERVAL}
      ]_vars

\* A reset that raised: the count stays at or above the threshold and the
\* base interval was doubled.
C30_Witness ==
    /\ st = "sleep"
    /\ ~interrupted
    /\ error_count >= MAX_SENSOR_READ_FAILURES
    /\ ~is_low_battery
    /\ sleep_seconds = 2 * SENSOR_READ_INTERVAL

\* A reset that succeeded: the count is cleared and the interval is the base.
C30_WitnessCleared ==
    /\ st = "sleep"
    /\ cycle = MaxCycles
    /\ consec_failed = 0
    /\ error_count = 0
    /\ ~classified
    /\ sleep_seconds = SENSOR_READ_INTERVAL

\* C31: with config.USE_DEEP_SLEEP set, the link is down while the node
\* sleeps: whenever lightsleep is running, the interface is disconnected and
\* inactive and is_connected is False, on every cycle.
C31_LinkDownWhileAsleep ==
    st = "asleep" => ~wlan_connected /\ ~wlan_active /\ ~is_connected

\* The node sleeps after a cycle whose transmission went out over a link
\* that was up when enter_sleep was called.
C31_Witness ==
    /\ st = "asleep"
    /\ cycle = 2
    /\ reading_count = 2
    /\ 2 \in delivered
    /\ ~wlan_connected /\ ~wlan_active /\ ~is_connected

\* C32: raw sample assembly is the inverse of the simulator's packing: for
\* pressure and temperature in 0..2^20-1 and humidity in 0..2^16-1 packed
\* into the burst bytes, _read_raw_data returns exactly those three values;
\* and for arbitrary bytes the assembled pressure and temperature lie in
\* 0..2^20-1 and the humidity in 0..2^16-1.
C32_RawAssemblyInvertsPacking ==
    bme_call.op = "_read_raw_data" =>
        /\ bme_call.args # <<>> =>
              /\ bme_call.raw[2] = bme_call.args[1]
              /\ bme_call.raw[1] = bme_call.args[2]
              /\ bme_call.raw[3] = bme_call.args[3]
        /\ bme_call.raw[1] \in 0..(2 ^ 20 - 1)
        /\ bme_call.raw[2] \in 0..(2 ^ 20 - 1)
        /\ bme_call.raw[3] \in 0..(2 ^ 16 - 1)

\* A packed sample with bits in every byte came back, low nibbles included.
C32_Witness ==
    /\ bme_call.op = "_read_raw_data"
    /\ bme_call.args = <<329228, 520888, 29172>>
    /\ bme_call.frames[1][3] # 0
    /\ bme_call.raw = <<520888, 329228, 29172>>

\* Bytes that no packing produces (low nibble of an xlsb byte set) were
\* assembled.
C32_WitnessArbitrary ==
    /\ bme_call.op = "_read_raw_data"
    /\ bme_call.args = <<>>
    /\ bme_call.frames[1][3] % 16 # 0
    /\ bme_call.raw[2] = 1048575

\* C33: every battery status record is internally consistent: its percentage
\* and its state are derived from the averaged voltage the record reports,
\* so state CRITICAL implies percentage 0 and percentage 100 implies state
\* FULL.
C33_StatusRecordConsistent ==
    pm_call.op = "get_battery_status" =>
        /\ pm_call.state = battery_state(pm_call.voltage)
        /\ pm_call.percentage = percentage(pm_call.voltage)
        /\ pm_call.state = "CRITICAL" => pm_call.percentage = Num(0)
        /\ pm_call.percentage = Num(100) => pm_call.state = "FULL"

\* The state of a status record does follow from the voltage it reports; the
\* percentage follows from the mean after the second read.
StatusRecordDerivation ==
    pm_call.op = "get_battery_status" =>
        /\ pm_call.state = battery_state(pm_call.voltage)
        /\ pm_call.percentage = percentage(pm_call.pvoltage)

\* C38: in every state of the battery monitor is_critical_battery implies
\* is_low_battery, so should_enter_low_power() is true whenever the battery
\* was last classified CRITICAL.
C38_CriticalImpliesLow ==
    /\ is_critical_battery => is_low_battery
    /\ pm_state = "CRITICAL" => should_enter_low_power(PM)

\* A status call classified the battery CRITICAL after two earlier reads.
C38_Witness ==
    /\ pm_call.op = "get_battery_status"
    /\ pm_state = "CRITICAL"
    /\ is_critical_battery
    /\ should_enter_low_power(PM)
    /\ Len(adc_history) = 4

\* A transmit attempt was made in this step and the sender returned True.
SentNow ==
    /\ Len(log') = Len(log) + 1
    /\ Last(log').res = "True"

\* C34: no reading is successfully transmitted more than once over any run,
\* runs with an interrupt during a buffer drain followed by the shutdown
\* drain included: a sender returns True only for a reading that no sender
\* returned True for before.
C34_NoReadingSentTwice ==
    [][SentNow => Last(log').data \notin delivered]_vars

\* A buffered reading that no sender has returned True for.
Waiting(e) == e.data \notin delivered'

\* C35: readings are delivered in the order they were taken: a reading is
\* never successfully transmitted while an older reading is still waiting
\* in the buffer.
C35_DeliveredInOrderTaken ==
    [][SentNow =>
          \A i \in DOMAIN data_buffer :
              data_buffer[i].data < Last(log').data => ~Waiting(data_buffer[i])
      ]_vars

\* C35, amended: within one call the transmit attempts are made in the order
\* the readings were taken, oldest first, and the buffer holds its entries
\* in that order; an entry whose attempt failed stays in the buffer while
\* newer readings go out.
C35_AttemptsInOrderTaken ==
    /\ \A i, j \in DOMAIN log : i < j => log[i].data < log[j].data
    /\ \A i, j \in DOMAIN data_buffer :
           i < j => data_buffer[i].data < data_buffer[j].data

\* In one send_data call the drain's two attempts failed and the call's own
\* reading then went out, the older readings still in the buffer.
C35_Witness ==
    /\ Len(log) = 3
    /\ log[1].res = "False"
    /\ log[2].res = "False"
    /\ log[3].res = "True"
    /\ log[3].data = data
    /\ \E i \in DOMAIN data_buffer : data_buffer[i].data = log[1].data

\* C36: a connection attempt (wlan.connect) is only ever made while the WLAN
\* interface is active: after disconnect() has deactivated the interface,
\* the next connect() re-activates it before it starts the join.
C36_ConnectOnlyWhileActive ==
    [][(pc # "c_wait" /\ pc' = "c_wait") => wlan_active']_vars

\* Nothing but the constructor activates the interface: once disconnect()
\* has run it stays inactive.
InterfaceNeverReactivated ==
    [][~wlan_active => ~wlan_active']_vars

\* C37: an external interrupt is never lost: a KeyboardInterrupt raised at
\* any point of the continuous loop, a sensor reset attempt included, takes
\* the station to its shutdown procedure.
C37_InterruptNeverLost ==
    [][(~interrupted /\ interrupted') => st' = "shutdown"]_vars

\* The interrupt is lost in one place only: outside the reset attempt it
\* reaches the handler of run_continuous.
InterruptLostOnlyInReset ==
    [][(~interrupted /\ interrupted' /\ st # "reset") => st' = "shutdown"]_vars

=============================================================================
